---- MODULE Spec2Model ----
(***************************************************************************)
(* Verification model of the regular-expression matchers of the grep       *)
(* repository.  Three engines are modelled, each from its own source:      *)
(*   r_...   the index-based engine of src/scrap/r.txt                     *)
(*   p0_...  the memoized engine of src/unnamed/part_000                   *)
(*   rx_...  the matcher of src/internal/matcher/regex.go                  *)
(* Text and pattern are sequences of one-character strings; the source's   *)
(* indices are kept 0-based (At, Slice).                                   *)
(***************************************************************************)
EXTENDS Integers, Sequences, FiniteSets, TLC

VARIABLES
    line,       \* the text handed to Match
    pattern,    \* the pattern handed to Match
    pc,         \* "new" before the constructor, "call" before Match, "done" after it
    rmPattern,  \* rm.pattern, set by NewRegexMatcher of src/scrap/r.txt
    newErr,     \* TRUE when NewRegexMatcher returned a non-nil error
    result,     \* the boolean Match returned (FALSE while pc = "call")
    panicked,   \* TRUE when Match ended in a run-time panic (index out of range)
    captures,   \* rm.captures of the RegexMatcher of src/scrap/r.txt
    memo,       \* rm.memo of the RegexMatcher of src/unnamed/part_000
    stdout,     \* the values written by fmt.Println in part_000's processAtom
    tried,      \* the calls of part_000's handleQuantifier and the counts each tried
    reads,      \* the entries of rm.memo that part_000's matchRegex read back
    rstack,     \* the call stack of the engine of src/scrap/r.txt, innermost frame last
    ret,        \* the value the last finished call returned ("none" while a call runs)
    args,       \* os.Args of the driver of src/unnamed/part_002
    stdin,      \* the lines on the driver's standard input
    scanned,    \* the number of lines the driver's scanner has returned
    exitCode,   \* the driver's exit status (-1 while it runs)
    parked,     \* the suspended one of two goroutines that call Match on one matcher
    switches,   \* the number of times the scheduler has switched between the two
    engine,     \* the Engine of src/unnamed/part_006: its running flag and its tasks
    e_calls,    \* for every goroutine that calls Start, where its call stands
    e_seen,     \* what the last call of IsRunning returned ("none" before any)
    vm,         \* the VM of src/pkg/vm.go: memory, pc, stack and running flag
    vm_seen     \* what the last calls of LoadProgram, Run and GetStackTop saw and returned

\* the ghost records of part_000's engine
p0_ghost == <<tried, reads>>

\* the state of a running call of the engine of src/scrap/r.txt
r_frames == <<rstack, ret>>

\* the state of the driver of src/unnamed/part_002
main_vars == <<args, stdin, scanned, exitCode>>

\* the scheduling of two goroutines on one matcher of src/scrap/r.txt
r_conc == <<parked, switches>>

\* the state of the matchers and of the driver
grep_vars == <<line, pattern, pc, rmPattern, newErr, result, panicked, captures, memo, stdout,
               p0_ghost, r_frames, main_vars, r_conc>>

\* the state of the Engine of src/unnamed/part_006 and of the VM of src/pkg/vm.go
pkg_vars == <<engine, e_calls, e_seen, vm, vm_seen>>

vars == <<line, pattern, pc, rmPattern, newErr, result, panicked, captures, memo, stdout,
          tried, reads, rstack, ret, args, stdin, scanned, exitCode, parked, switches,
          engine, e_calls, e_seen, vm, vm_seen>>

(***************************************************************************)
(* Bytes, slices and the library functions the engines call.               *)
(***************************************************************************)

\* s[i] with the source's 0-based index
At(s, i) == s[i + 1]

\* s[lo:hi]
Slice(s, lo, hi) == SubSeq(s, lo + 1, hi)

\* the printable ASCII characters in byte order, from 32 (space) to 126 (~);
\* the entry "grave" holds the place of byte 96, which no model input uses
Ascii ==
    << " ", "!", "\"", "#", "$", "%", "&", "'", "(", ")", "*", "+", ",", "-", ".", "/",
       "0", "1", "2", "3", "4", "5", "6", "7", "8", "9", ":", ";", "<", "=", ">", "?",
       "@", "A", "B", "C", "D", "E", "F", "G", "H", "I", "J", "K", "L", "M", "N", "O",
       "P", "Q", "R", "S", "T", "U", "V", "W", "X", "Y", "Z", "[", "\\", "]", "^", "_",
       "grave", "a", "b", "c", "d", "e", "f", "g", "h", "i", "j", "k", "l", "m", "n", "o",
       "p", "q", "r", "s", "t", "u", "v", "w", "x", "y", "z", "{", "|", "}", "~" >>

\* the byte value of a character
Code(c) == 31 + (CHOOSE i \in 1..Len(Ascii) : Ascii[i] = c)

Digits == {"0", "1", "2", "3", "4", "5", "6", "7", "8", "9"}

\* unicode.IsDigit on a byte
IsDigit(c) == c \in Digits

\* unicode.IsLetter on an ASCII byte
IsLetter(c) == (Code(c) >= Code("a") /\ Code(c) <= Code("z"))
               \/ (Code(c) >= Code("A") /\ Code(c) <= Code("Z"))

\* unicode.IsSpace on a printable ASCII byte
IsSpace(c) == c = " "

\* the value of a decimal digit
DigitVal(c) == Code(c) - Code("0")

RECURSIVE DigitsVal(_, _)
DigitsVal(s, acc) ==
    IF s = << >> THEN acc ELSE DigitsVal(Tail(s), 10 * acc + DigitVal(Head(s)))

\* strconv.Atoi: an optional sign, then one or more decimal digits
Atoi(s) ==
    LET signed == s # << >> /\ Head(s) \in {"+", "-"}
        body   == IF signed THEN Tail(s) ELSE s
    IN  IF body = << >> \/ \E i \in 1..Len(body) : body[i] \notin Digits
        THEN [err |-> TRUE, val |-> 0]
        ELSE [err |-> FALSE,
              val |-> IF signed /\ Head(s) = "-" THEN 0 - DigitsVal(body, 0)
                      ELSE DigitsVal(body, 0)]

RECURSIVE SplitAcc(_, _, _)
SplitAcc(s, sep, cur) ==
    IF s = << >> THEN << cur >>
    ELSE IF Head(s) = sep THEN << cur >> \o SplitAcc(Tail(s), sep, << >>)
    ELSE SplitAcc(Tail(s), sep, Append(cur, Head(s)))

\* strings.Split(s, sep) for a one-character separator
Split(s, sep) == SplitAcc(s, sep, << >>)

(***************************************************************************)
(* The index-based engine of src/scrap/r.txt.  Every function returns the  *)
(* boolean it returns in the source, whether it panicked, and rm.captures  *)
(* as the call leaves it.                                                  *)
(***************************************************************************)

r_Ret(ok, caps) == [ok |-> ok, panic |-> FALSE, caps |-> caps]

r_Panic(caps) == [ok |-> FALSE, panic |-> TRUE, caps |-> caps]

\* the largest int32, the upper bound of {m,}
r_MaxInt32 == 2147483647

RECURSIVE r_findClosingParenFrom(_, _, _)
r_findClosingParenFrom(pat, i, count) ==
    IF i >= Len(pat) THEN -1
    ELSE IF At(pat, i) = "(" THEN r_findClosingParenFrom(pat, i + 1, count + 1)
    ELSE IF At(pat, i) = ")"
         THEN IF count - 1 = 0 THEN i ELSE r_findClosingParenFrom(pat, i + 1, count - 1)
    ELSE r_findClosingParenFrom(pat, i + 1, count)

r_findClosingParen(pat, start) == r_findClosingParenFrom(pat, start + 1, 1)

\* the first index after start holding c, or -1
FirstAfter(pat, start, c) ==
    IF \E i \in (start + 1)..(Len(pat) - 1) : At(pat, i) = c
    THEN CHOOSE i \in (start + 1)..(Len(pat) - 1) :
            /\ At(pat, i) = c
            /\ \A j \in (start + 1)..(i - 1) : At(pat, j) # c
    ELSE -1

r_findClosingBracket(pat, start) == FirstAfter(pat, start, "]")

r_findClosingBrace(pat, start) == FirstAfter(pat, start, "}")

r_parseQuantifier(quantifier) ==
    LET parts == Split(quantifier, ",")
        first == Atoi(parts[1])
    IN  IF Len(parts) = 1 THEN [min |-> first.val, max |-> first.val, err |-> first.err]
        ELSE IF first.err THEN [min |-> 0, max |-> 0, err |-> TRUE]
        ELSE IF parts[2] = << >> THEN [min |-> first.val, max |-> r_MaxInt32, err |-> FALSE]
        ELSE [min |-> first.val, max |-> Atoi(parts[2]).val, err |-> Atoi(parts[2]).err]

r_isWord(c) == IsLetter(c) \/ IsDigit(c) \/ c = "_"

\* the member scan of handleCharacterClass: does the class between start and
\* closingBracket hold the byte c
RECURSIVE r_classScan(_, _, _, _, _)
r_classScan(pat, c, start, closingBracket, i) ==
    IF i >= closingBracket THEN FALSE
    ELSE IF At(pat, i) = "-" /\ i > start /\ i < closingBracket - 1
         THEN IF Code(c) >= Code(At(pat, i - 1)) /\ Code(c) <= Code(At(pat, i + 1))
              THEN TRUE
              ELSE r_classScan(pat, c, start, closingBracket, i + 2)
    ELSE IF At(pat, i) = c THEN TRUE
    ELSE r_classScan(pat, c, start, closingBracket, i + 1)

\* a pattern end that accepts wherever the text cursor stands (prefix matching)
r_patternEnd_prefix(text, textIdx) == TRUE

\* the base case of matchRegex: at the end of the pattern the text must be used up
r_patternEnd(text, textIdx) == textIdx = Len(text)

RECURSIVE r_matchRegex(_, _, _, _, _)
RECURSIVE r_matchStar(_, _, _, _, _, _)
RECURSIVE r_handleCapturingGroupFrom(_, _, _, _, _, _, _)
RECURSIVE r_handleQuantifierExact(_, _, _, _, _, _, _, _)
RECURSIVE r_handleQuantifierRange(_, _, _, _, _, _, _, _, _)

\* the loop of matchStar, from iteration i
r_matchStar(text, pat, textIdx, patIdx, i, caps) ==
    LET r == r_matchRegex(text, pat, textIdx + i, patIdx + 2, caps)
    IN  IF r.panic \/ r.ok THEN r
        ELSE IF textIdx + i = Len(text) THEN r_Ret(FALSE, r.caps)
        ELSE IF At(pat, patIdx) # "."
             THEN IF textIdx + i < 0 \/ textIdx + i > Len(text) THEN r_Panic(r.caps)
                  ELSE IF At(pat, patIdx) # At(text, textIdx + i) THEN r_Ret(FALSE, r.caps)
                  ELSE r_matchStar(text, pat, textIdx, patIdx, i + 1, r.caps)
        ELSE r_matchStar(text, pat, textIdx, patIdx, i + 1, r.caps)

r_matchPlus(text, pat, textIdx, patIdx, caps) ==
    IF textIdx = Len(text) THEN r_Ret(FALSE, caps)
    ELSE IF At(pat, patIdx) # "."
         THEN IF textIdx < 0 \/ textIdx > Len(text) THEN r_Panic(caps)
              ELSE IF At(pat, patIdx) # At(text, textIdx) THEN r_Ret(FALSE, caps)
              ELSE r_matchStar(text, pat, textIdx + 1, patIdx, 0, caps)
    ELSE r_matchStar(text, pat, textIdx + 1, patIdx, 0, caps)

r_matchOptional(text, pat, textIdx, patIdx, caps) ==
    LET r == r_matchRegex(text, pat, textIdx, patIdx + 2, caps)
    IN  IF r.panic \/ r.ok THEN r
        ELSE IF textIdx < Len(text)
             THEN IF At(pat, patIdx) = "."
                  THEN r_matchRegex(text, pat, textIdx + 1, patIdx + 2, r.caps)
                  ELSE IF textIdx < 0 THEN r_Panic(r.caps)
                  ELSE IF At(pat, patIdx) = At(text, textIdx)
                       THEN r_matchRegex(text, pat, textIdx + 1, patIdx + 2, r.caps)
                  ELSE r_Ret(FALSE, r.caps)
        ELSE r_Ret(FALSE, r.caps)

\* the loop of handleCapturingGroup, from candidate length i
r_handleCapturingGroupFrom(text, pat, textIdx, patIdx, closingParen, i, caps) ==
    IF i > Len(text) - textIdx THEN r_Ret(FALSE, caps)
    ELSE IF textIdx < 0 THEN r_Panic(caps)
    ELSE
        LET sub == r_matchRegex(Slice(text, textIdx, textIdx + i),
                                Slice(pat, patIdx + 1, closingParen), 0, 0, caps)
        IN  IF sub.panic THEN sub
            ELSE IF sub.ok
            THEN LET captureStart == Len(sub.caps)
                     rest == r_matchRegex(text, pat, textIdx + i, closingParen + 1,
                                          Append(sub.caps, <<textIdx, textIdx + i>>))
                 IN  IF rest.panic \/ rest.ok THEN rest
                     ELSE r_handleCapturingGroupFrom(text, pat, textIdx, patIdx, closingParen,
                                                     i + 1, SubSeq(rest.caps, 1, captureStart))
            ELSE r_handleCapturingGroupFrom(text, pat, textIdx, patIdx, closingParen,
                                            i + 1, sub.caps)

r_handleCapturingGroup(text, pat, textIdx, patIdx, caps) ==
    LET closingParen == r_findClosingParen(pat, patIdx)
    IN  IF closingParen = -1 THEN r_Ret(FALSE, caps)
        ELSE r_handleCapturingGroupFrom(text, pat, textIdx, patIdx, closingParen, 0, caps)

r_handleCharacterClass(text, pat, textIdx, patIdx, caps) ==
    LET closingBracket == r_findClosingBracket(pat, patIdx)
        isNegative     == At(pat, patIdx + 1) = "^"
        start          == IF isNegative THEN patIdx + 2 ELSE patIdx + 1
    IN  IF closingBracket = -1 THEN r_Ret(FALSE, caps)
        ELSE IF textIdx = Len(text) THEN r_Ret(FALSE, caps)
        ELSE IF start < closingBracket /\ (textIdx < 0 \/ textIdx > Len(text))
             THEN r_Panic(caps)
        ELSE LET found   == IF start < closingBracket
                            THEN r_classScan(pat, At(text, textIdx), start, closingBracket, start)
                            ELSE FALSE
                 matched == IF isNegative THEN ~found ELSE found
             IN  IF matched
                 THEN r_matchRegex(text, pat, textIdx + 1, closingBracket + 1, caps)
                 ELSE r_Ret(FALSE, caps)

r_handleBackreference(text, pat, textIdx, patIdx, caps) ==
    LET groupNum == DigitVal(At(pat, patIdx + 1))
    IN  IF groupNum <= 0 \/ groupNum > Len(caps) THEN r_Ret(FALSE, caps)
        ELSE
            LET capture    == caps[groupNum]
                captureLen == capture[2] - capture[1]
                \* the first i at which the comparison loop stops, captureLen if none
                stops == {i \in 0..(captureLen - 1) :
                            \/ textIdx + i < 0
                            \/ capture[1] + i >= Len(text)
                            \/ At(text, textIdx + i) # At(text, capture[1] + i)}
                first == IF stops = {} THEN captureLen
                         ELSE CHOOSE i \in stops : \A j \in stops : i <= j
            IN  IF textIdx + captureLen > Len(text) THEN r_Ret(FALSE, caps)
                ELSE IF first < captureLen
                     THEN IF textIdx + first < 0 \/ capture[1] + first >= Len(text)
                          THEN r_Panic(caps)
                          ELSE r_Ret(FALSE, caps)
                ELSE r_matchRegex(text, pat, textIdx + captureLen, patIdx + 2, caps)

r_handleEscapedChar(text, pat, textIdx, patIdx, caps) ==
    IF patIdx + 1 >= Len(pat) THEN r_Ret(FALSE, caps)
    ELSE IF textIdx >= Len(text) THEN r_Ret(FALSE, caps)
    ELSE
        LET escapedChar == At(pat, patIdx + 1)
            c           == At(text, textIdx)
            next        == r_matchRegex(text, pat, textIdx + 1, patIdx + 2, caps)
        IN  IF escapedChar \notin {"d", "D", "w", "W", "s", "S"}
               /\ Code(escapedChar) >= Code("1") /\ Code(escapedChar) <= Code("9")
            THEN r_handleBackreference(text, pat, textIdx, patIdx, caps)
            ELSE IF textIdx < 0 THEN r_Panic(caps)
            ELSE CASE escapedChar = "d" -> IF ~IsDigit(c) THEN r_Ret(FALSE, caps) ELSE next
                   [] escapedChar = "D" -> IF IsDigit(c) THEN r_Ret(FALSE, caps) ELSE next
                   [] escapedChar = "w" -> IF ~r_isWord(c) THEN r_Ret(FALSE, caps) ELSE next
                   [] escapedChar = "W" -> IF r_isWord(c) THEN r_Ret(FALSE, caps) ELSE next
                   [] escapedChar = "s" -> IF ~IsSpace(c) THEN r_Ret(FALSE, caps) ELSE next
                   [] escapedChar = "S" -> IF IsSpace(c) THEN r_Ret(FALSE, caps) ELSE next
                   [] OTHER -> IF c # escapedChar THEN r_Ret(FALSE, caps) ELSE next

\* the failure test both loops of handleQuantifier apply to repetition i:
\* "stop", "go" or "panic" (pattern[patIdx-1] or text[textIdx+i] out of range)
r_quantStep(text, pat, textIdx, patIdx, i, atEnd) ==
    IF atEnd THEN "stop"
    ELSE IF patIdx - 1 < 0 THEN "panic"
    ELSE IF At(pat, patIdx - 1) = "." THEN "go"
    ELSE IF textIdx + i < 0 \/ textIdx + i >= Len(text) THEN "panic"
    ELSE IF At(pat, patIdx - 1) # At(text, textIdx + i) THEN "stop"
    ELSE "go"

\* the "exact count" loop of handleQuantifier, from iteration i
r_handleQuantifierExact(text, pat, textIdx, patIdx, closingBrace, min, i, caps) ==
    IF i >= min THEN r_matchRegex(text, pat, textIdx + min, closingBrace + 1, caps)
    ELSE LET step == r_quantStep(text, pat, textIdx, patIdx, i, textIdx + i >= Len(text))
         IN  IF step = "panic" THEN r_Panic(caps)
             ELSE IF step = "stop" THEN r_Ret(FALSE, caps)
             ELSE r_handleQuantifierExact(text, pat, textIdx, patIdx, closingBrace, min,
                                          i + 1, caps)

\* the range loop of handleQuantifier, from iteration i
r_handleQuantifierRange(text, pat, textIdx, patIdx, closingBrace, min, max, i, caps) ==
    IF ~(i <= max /\ textIdx + i <= Len(text)) THEN r_Ret(FALSE, caps)
    ELSE LET r == IF i >= min
                  THEN r_matchRegex(text, pat, textIdx + i, closingBrace + 1, caps)
                  ELSE r_Ret(FALSE, caps)
             step == r_quantStep(text, pat, textIdx, patIdx, i, textIdx + i = Len(text))
         IN  IF r.panic \/ r.ok THEN r
             ELSE IF step = "panic" THEN r_Panic(r.caps)
             ELSE IF step = "stop" THEN r_Ret(FALSE, r.caps)
             ELSE r_handleQuantifierRange(text, pat, textIdx, patIdx, closingBrace, min, max,
                                          i + 1, r.caps)

r_handleQuantifier(text, pat, textIdx, patIdx, caps) ==
    LET closingBrace == r_findClosingBrace(pat, patIdx)
        q            == r_parseQuantifier(Slice(pat, patIdx + 1, closingBrace))
    IN  IF closingBrace = -1 THEN r_Ret(FALSE, caps)
        ELSE IF q.err THEN r_Ret(FALSE, caps)
        ELSE IF q.min = q.max
             THEN r_handleQuantifierExact(text, pat, textIdx, patIdx, closingBrace, q.min, 0, caps)
        ELSE r_handleQuantifierRange(text, pat, textIdx, patIdx, closingBrace, q.min, q.max,
                                     0, caps)

r_matchRegex(text, pat, textIdx, patIdx, caps) ==
    IF patIdx = Len(pat) THEN r_Ret(r_patternEnd(text, textIdx), caps)
    ELSE IF patIdx + 1 < Len(pat) /\ At(pat, patIdx + 1) = "*"
         THEN r_matchStar(text, pat, textIdx, patIdx, 0, caps)
    ELSE IF patIdx + 1 < Len(pat) /\ At(pat, patIdx + 1) = "+"
         THEN r_matchPlus(text, pat, textIdx, patIdx, caps)
    ELSE IF patIdx + 1 < Len(pat) /\ At(pat, patIdx + 1) = "?"
         THEN r_matchOptional(text, pat, textIdx, patIdx, caps)
    ELSE IF patIdx < 0 \/ patIdx > Len(pat) THEN r_Panic(caps)
    ELSE IF At(pat, patIdx) = "(" THEN r_handleCapturingGroup(text, pat, textIdx, patIdx, caps)
    ELSE IF At(pat, patIdx) = "[" THEN r_handleCharacterClass(text, pat, textIdx, patIdx, caps)
    ELSE IF At(pat, patIdx) = "^"
         THEN IF textIdx = 0 THEN r_matchRegex(text, pat, textIdx, patIdx + 1, caps)
              ELSE r_Ret(FALSE, caps)
    ELSE IF At(pat, patIdx) = "$"
         THEN IF textIdx = Len(text) THEN r_matchRegex(text, pat, textIdx, patIdx + 1, caps)
              ELSE r_Ret(FALSE, caps)
    ELSE IF At(pat, patIdx) = "\\" /\ patIdx + 1 < Len(pat)
         THEN r_handleEscapedChar(text, pat, textIdx, patIdx, caps)
    ELSE IF At(pat, patIdx) = "{" THEN r_handleQuantifier(text, pat, textIdx, patIdx, caps)
    ELSE IF textIdx < Len(text)
         THEN IF At(pat, patIdx) = "."
              THEN r_matchRegex(text, pat, textIdx + 1, patIdx + 1, caps)
              ELSE IF textIdx < 0 THEN r_Panic(caps)
              ELSE IF At(pat, patIdx) = At(text, textIdx)
                   THEN r_matchRegex(text, pat, textIdx + 1, patIdx + 1, caps)
              ELSE r_Ret(FALSE, caps)
    ELSE r_Ret(FALSE, caps)

\* RegexMatcher.Match of src/scrap/r.txt: rm.captures = nil, then matchRegex
r_MatchCall(text, pat) == r_matchRegex(text, pat, 0, 0, << >>)

(***************************************************************************)
(* The memoized engine of src/unnamed/part_000.  Every function returns    *)
(* the boolean it returns in the source, whether it panicked, and the      *)
(* matcher's memo and the standard output as the call leaves them.  The    *)
(* state threaded through the calls also says whether rm.memo is in use    *)
(* (on), and keeps two ghost records: the calls of handleQuantifier with   *)
(* the counts each tried (tried) and the memo entries read back (reads).   *)
(***************************************************************************)

RECURSIVE ItoaNat(_)
ItoaNat(n) ==
    IF n < 10 THEN << Ascii[n + 17] >>
    ELSE Append(ItoaNat(n \div 10), Ascii[(n % 10) + 17])

\* strconv.Itoa
Itoa(n) == IF n < 0 THEN << "-" >> \o ItoaNat(0 - n) ELSE ItoaNat(n)

RECURSIVE Join(_, _)
\* strings.Join(parts, sep)
Join(parts, sep) ==
    IF parts = << >> THEN << >>
    ELSE IF Len(parts) = 1 THEN parts[1]
    ELSE parts[1] \o << sep >> \o Join(Tail(parts), sep)

p0_capturesKey(caps) == Join(caps, "|")

\* the memoization key of matchRegex
\* a key that leaves the text index out
p0_key_noTextIdx(textIdx, patIdx, caps) ==
    Itoa(patIdx) \o << "|" >> \o p0_capturesKey(caps)

p0_key(textIdx, patIdx, caps) ==
    Itoa(textIdx) \o << "|" >> \o Itoa(patIdx) \o << "|" >> \o p0_capturesKey(caps)

\* the state threaded through the calls
p0_State(m, out, on, tr, rd) ==
    [memo |-> m, out |-> out, on |-> on, tried |-> tr, reads |-> rd]

\* the state at the start of Match: rm.memo = make(map[string]bool)
p0_Start(out, on) == p0_State([k \in {} |-> FALSE], out, on, << >>, << >>)

p0_Ret(ok, st) ==
    [ok |-> ok, panic |-> FALSE, memo |-> st.memo, out |-> st.out, on |-> st.on,
     tried |-> st.tried, reads |-> st.reads]

p0_Panic(st) ==
    [ok |-> FALSE, panic |-> TRUE, memo |-> st.memo, out |-> st.out, on |-> st.on,
     tried |-> st.tried, reads |-> st.reads]

\* the map m with m[key] = val
p0_memoWith(m, key, val) ==
    [k \in DOMAIN m \cup {key} |-> IF k = key THEN val ELSE m[k]]

\* rm.memo[key] = val
p0_Store(st, key, val) ==
    IF st.on THEN p0_State(p0_memoWith(st.memo, key, val), st.out, st.on, st.tried, st.reads)
    ELSE p0_State(st.memo, st.out, st.on, st.tried, st.reads)

\* val, exists := rm.memo[key] with exists true: the entry read is recorded
p0_Read(st, textIdx, patIdx, caps) ==
    p0_State(st.memo, st.out, st.on, st.tried,
             Append(st.reads, [textIdx |-> textIdx, patIdx |-> patIdx, caps |-> caps,
                               val |-> st.memo[p0_key(textIdx, patIdx, caps)]]))

\* fmt.Println("Max value:", max)
p0_Println(st, max) == p0_State(st.memo, Append(st.out, max), st.on, st.tried, st.reads)

\* handleQuantifier is entered: a record of the call is opened
p0_Entered(st, textIdx, patIdx, min, max, isNonGreedy) ==
    p0_State(st.memo, st.out, st.on,
             Append(st.tried, [textIdx |-> textIdx, patIdx |-> patIdx, min |-> min,
                               max |-> max, ng |-> isNonGreedy, counts |-> << >>,
                               conts |-> << >>, returned |-> "none"]),
             st.reads)

\* call n of handleQuantifier starts the continuation for count k
p0_Trying(st, n, k) ==
    p0_State(st.memo, st.out, st.on,
             [st.tried EXCEPT ![n].counts = Append(@, k)], st.reads)

\* the continuation call n of handleQuantifier started returned ok
p0_Continued(st, n, ok) ==
    p0_State(st.memo, st.out, st.on,
             [st.tried EXCEPT ![n].conts = Append(@, ok)], st.reads)

\* call n of handleQuantifier returns ok
p0_Returned(st, n, ok) ==
    p0_State(st.memo, st.out, st.on,
             [st.tried EXCEPT ![n].returned = IF ok THEN "true" ELSE "false"], st.reads)

RECURSIVE p0_validateFrom(_, _, _)
p0_validateFrom(pat, i, stack) ==
    IF i > Len(pat) THEN stack = << >>
    ELSE IF pat[i] \in {"(", "["} THEN p0_validateFrom(pat, i + 1, Append(stack, pat[i]))
    ELSE IF pat[i] = ")"
         THEN IF stack = << >> \/ stack[Len(stack)] # "(" THEN FALSE
              ELSE p0_validateFrom(pat, i + 1, SubSeq(stack, 1, Len(stack) - 1))
    ELSE IF pat[i] = "]"
         THEN IF stack = << >> \/ stack[Len(stack)] # "[" THEN FALSE
              ELSE p0_validateFrom(pat, i + 1, SubSeq(stack, 1, Len(stack) - 1))
    ELSE p0_validateFrom(pat, i + 1, stack)

\* a validation that only counts: as many closers as openers of each kind
p0_validatePattern_counts(pat) ==
    /\ Cardinality({i \in 1..Len(pat) : pat[i] = "("})
         = Cardinality({i \in 1..Len(pat) : pat[i] = ")"})
    /\ Cardinality({i \in 1..Len(pat) : pat[i] = "["})
         = Cardinality({i \in 1..Len(pat) : pat[i] = "]"})

\* validatePattern(pattern) == nil
p0_validatePattern(pat) == p0_validateFrom(pat, 1, << >>)

\* findClosingBrace: only a '{' at patIdx has a closing brace
p0_findClosingBrace(pat, patIdx) ==
    IF patIdx >= Len(pat) \/ At(pat, patIdx) # "{" THEN -1
    ELSE FirstAfter(pat, patIdx, "}")

p0_isWord(c) == IsLetter(c) \/ IsDigit(c) \/ c = "_"

\* bytes.Contains(chars, c), negated for a negated class
p0_matchChar(c, chars, isNegated) ==
    LET contains == \E i \in 1..Len(chars) : chars[i] = c
    IN  IF isNegated THEN ~contains ELSE contains

p0_parseQuantifier(quantContent) ==
    LET parts == Split(quantContent, ",")
        first == Atoi(parts[1])
    IN  IF Len(parts) = 1 THEN [min |-> first.val, max |-> first.val, err |-> first.err]
        ELSE IF Len(parts) = 2
             THEN IF first.err THEN [min |-> 0, max |-> 0, err |-> TRUE]
                  ELSE IF parts[2] = << >> THEN [min |-> first.val, max |-> -1, err |-> FALSE]
                  ELSE [min |-> first.val, max |-> Atoi(parts[2]).val,
                        err |-> Atoi(parts[2]).err]
        ELSE [min |-> 0, max |-> 0, err |-> TRUE]

p0_matchesAtom(c, pat, patIdx) ==
    IF At(pat, patIdx) = "." THEN TRUE
    ELSE IF At(pat, patIdx) = "\\"
         THEN IF patIdx + 1 >= Len(pat) THEN FALSE
              ELSE CASE At(pat, patIdx + 1) = "w" -> p0_isWord(c)
                     [] At(pat, patIdx + 1) = "d" -> IsDigit(c)
                     [] At(pat, patIdx + 1) = "s" -> IsSpace(c)
                     [] OTHER -> FALSE
    ELSE c = At(pat, patIdx)

\* matchAtoms: "yes", "no", or "panic" when text is read at a negative index
p0_matchAtoms(text, patIdx, textIdx, length, pat) ==
    LET stops == {i \in 0..(length - 1) :
                    \/ textIdx + i >= Len(text)
                    \/ textIdx + i < 0
                    \/ ~p0_matchesAtom(At(text, textIdx + i), pat, patIdx)}
        first == CHOOSE i \in stops : \A j \in stops : i <= j
    IN  IF stops = {} THEN "yes"
        ELSE IF textIdx + first < Len(text) /\ textIdx + first < 0 THEN "panic"
        ELSE "no"

\* one entry of matchLengths, and the mark left when matchAtoms panics
p0_Count(i) == [len |-> i, panic |-> FALSE]

p0_CountPanic == [len |-> 0, panic |-> TRUE]

\* the repetition counts handleQuantifier collects, in the order it will try
\* them, ended by p0_CountPanic when matchAtoms panics
RECURSIVE p0_lengthsNonGreedy(_, _, _, _, _, _)
p0_lengthsNonGreedy(text, pat, textIdx, patIdx, max, i) ==
    IF ~((max = -1 \/ i <= max) /\ textIdx + i <= Len(text)) THEN << >>
    ELSE LET m == IF i > 0 THEN p0_matchAtoms(text, patIdx, textIdx, i, pat) ELSE "yes"
         IN  IF m = "panic" THEN << p0_CountPanic >>
             ELSE IF m = "no" THEN << >>
             ELSE << p0_Count(i) >> \o p0_lengthsNonGreedy(text, pat, textIdx, patIdx, max, i + 1)

RECURSIVE p0_lengthsGreedy(_, _, _, _, _, _)
p0_lengthsGreedy(text, pat, textIdx, patIdx, min, i) ==
    IF i < min THEN << >>
    ELSE LET m == IF i > 0 THEN p0_matchAtoms(text, patIdx, textIdx, i, pat) ELSE "yes"
         IN  IF m = "panic" THEN << p0_CountPanic >>
             ELSE IF m = "no" THEN p0_lengthsGreedy(text, pat, textIdx, patIdx, min, i - 1)
             ELSE << p0_Count(i) >> \o p0_lengthsGreedy(text, pat, textIdx, patIdx, min, i - 1)

\* a collection that takes the ascending loop whatever isNonGreedy says
p0_matchLengths_ascending(text, pat, textIdx, patIdx, min, max, isNonGreedy) ==
    p0_lengthsNonGreedy(text, pat, textIdx, patIdx, max, min)

p0_matchLengths(text, pat, textIdx, patIdx, min, max, isNonGreedy) ==
    IF isNonGreedy THEN p0_lengthsNonGreedy(text, pat, textIdx, patIdx, max, min)
    ELSE LET maxMatchRange == IF max = -1 \/ max > Len(text) - textIdx
                              THEN Len(text) - textIdx ELSE max
         IN  p0_lengthsGreedy(text, pat, textIdx, patIdx, min, maxMatchRange)

RECURSIVE p0_matchRegex(_, _, _, _, _, _)
RECURSIVE p0_tryLengths(_, _, _, _, _, _, _, _)

\* the last loop of handleQuantifier, in call n of it: the first collected
\* count whose continuation at patIdx+2 matches
p0_tryLengths(text, pat, caps, startIdx, patIdx, lengths, st, n) ==
    IF lengths = << >> THEN p0_Ret(FALSE, p0_Returned(st, n, FALSE))
    ELSE IF Head(lengths).panic THEN p0_Panic(st)
    ELSE LET r == p0_matchRegex(text, pat, caps, startIdx + Head(lengths).len, patIdx + 2,
                                p0_Trying(st, n, Head(lengths).len))
         IN  IF r.panic THEN r
             ELSE IF r.ok THEN p0_Ret(TRUE, p0_Returned(p0_Continued(r, n, TRUE), n, TRUE))
             ELSE p0_tryLengths(text, pat, caps, startIdx, patIdx, Tail(lengths),
                                p0_Continued(r, n, FALSE), n)

p0_handleQuantifier(text, pat, caps, textIdx, patIdx, min, max, isNonGreedy, st) ==
    p0_tryLengths(text, pat, caps, textIdx, patIdx,
                  p0_matchLengths(text, pat, textIdx, patIdx, min, max, isNonGreedy),
                  p0_Entered(st, textIdx, patIdx, min, max, isNonGreedy),
                  Len(st.tried) + 1)

\* the quantifier processAtom recognises after the atom at patIdx:
\* its name ("" when there is none, "bad" when the braces do not parse), the
\* bounds parsed from braces, laziness, and the pattern index it leaves
p0_quantifierAt(pat, patIdx) ==
    LET nextPatIdx == patIdx + 1
        nextChar   == At(pat, nextPatIdx)
        none       == [q |-> "", min |-> 0, max |-> 0, ng |-> FALSE, patIdx |-> patIdx,
                       text |-> << >>]
    IN  IF nextChar = "?" /\ patIdx > 0 /\ At(pat, patIdx - 1) \in {"*", "+", "?", "}"}
        THEN [none EXCEPT !.q = "non-greedy", !.ng = TRUE]
        ELSE IF nextChar \in {"*", "+", "?"}
        THEN IF nextPatIdx + 1 < Len(pat) /\ At(pat, nextPatIdx + 1) = "?"
             THEN [none EXCEPT !.q = IF nextChar = "*" THEN "*?"
                                     ELSE IF nextChar = "+" THEN "+?" ELSE "??",
                               !.ng = TRUE]
             ELSE [none EXCEPT !.q = nextChar]
        ELSE IF nextChar = "{"
        THEN LET endBrace  == p0_findClosingBrace(pat, nextPatIdx)
                 quantText == Slice(pat, nextPatIdx + 1, endBrace)
                 parts     == Split(quantText, ",")
                 hasComma  == \E i \in 1..Len(quantText) : quantText[i] = ","
                 lo        == Atoi(parts[1])
                 hi        == IF ~hasComma THEN lo
                              ELSE IF parts[2] = << >> THEN [err |-> FALSE, val |-> -1]
                              ELSE Atoi(parts[2])
                 lazy      == endBrace + 1 < Len(pat) /\ At(pat, endBrace + 1) = "?"
             IN  IF endBrace = -1 THEN [none EXCEPT !.q = "bad"]
                 ELSE IF lo.err \/ hi.err THEN [none EXCEPT !.q = "bad"]
                 ELSE [q |-> "{}", min |-> lo.val, max |-> hi.val, ng |-> lazy,
                       patIdx |-> IF lazy THEN endBrace + 1 ELSE endBrace,
                       text |-> quantText]
        ELSE none

\* processAtom behind its switch (lines 257-284): qu is the quantifier found
p0_applyQuantifier(text, pat, caps, textIdx, qu, pq, st1) ==
    IF qu.q \in {"", "non-greedy"}
    THEN p0_matchRegex(text, pat, caps, textIdx + 1, qu.patIdx + 1, st1)
    ELSE IF qu.q = "*"
         THEN p0_handleQuantifier(text, pat, caps, textIdx, qu.patIdx, 0, -1, qu.ng, st1)
    ELSE IF qu.q \in {"+", "+?"}
         THEN p0_handleQuantifier(text, pat, caps, textIdx, qu.patIdx, 1, -1, qu.ng, st1)
    ELSE IF qu.q \in {"?", "??"}
         THEN p0_handleQuantifier(text, pat, caps, textIdx, qu.patIdx, 0, 1, qu.ng, st1)
    ELSE IF qu.q = "{}"
         THEN IF pq.err THEN p0_Ret(FALSE, st1)
              ELSE p0_handleQuantifier(text, pat, caps, textIdx, qu.patIdx,
                                       pq.min, pq.max, qu.ng, st1)
    ELSE p0_Ret(FALSE, st1)

\* processAtom behind the test for the end of the pattern
p0_processQuantifier(text, pat, caps, textIdx, st, qu) ==
    IF qu.q = "bad" THEN p0_Ret(FALSE, st)
    ELSE p0_applyQuantifier(text, pat, caps, textIdx, qu, p0_parseQuantifier(qu.text),
                            p0_Println(st, qu.max))

p0_processAtom(text, pat, caps, textIdx, patIdx, st) ==
    IF patIdx + 1 >= Len(pat)
    THEN p0_matchRegex(text, pat, caps, textIdx + 1, patIdx + 1, st)
    ELSE p0_processQuantifier(text, pat, caps, textIdx, st, p0_quantifierAt(pat, patIdx))

\* the escape branch of matchRegex
p0_escape(text, pat, caps, textIdx, patIdx, st) ==
    IF patIdx + 1 >= Len(pat) THEN p0_Ret(FALSE, st)
    ELSE
        LET escapedChar == At(pat, patIdx + 1)
            isClass(c)  == CASE escapedChar = "w" -> p0_isWord(c)
                             [] escapedChar = "d" -> IsDigit(c)
                             [] escapedChar = "s" -> IsSpace(c)
        IN  IF escapedChar \in {"w", "d", "s"}
            THEN IF textIdx >= Len(text) THEN p0_Ret(FALSE, st)
                 ELSE IF textIdx < 0 THEN p0_Panic(st)
                 ELSE IF ~isClass(At(text, textIdx)) THEN p0_Ret(FALSE, st)
                 ELSE p0_processAtom(text, pat, caps, textIdx, patIdx, st)
            ELSE IF IsDigit(escapedChar)
            THEN LET captureIndex == Atoi(<< escapedChar >>).val
                     capture      == caps[captureIndex]
                 IN  IF captureIndex <= 0 \/ captureIndex > Len(caps) THEN p0_Ret(FALSE, st)
                     ELSE IF textIdx + Len(capture) > Len(text) THEN p0_Ret(FALSE, st)
                     ELSE IF textIdx < 0 THEN p0_Panic(st)
                     ELSE IF Slice(text, textIdx, textIdx + Len(capture)) # capture
                          THEN p0_Ret(FALSE, st)
                     ELSE p0_matchRegex(text, pat, caps, textIdx + Len(capture),
                                        patIdx + 2, st)
            ELSE p0_Ret(FALSE, st)

\* the character-class branch of matchRegex
p0_class(text, pat, caps, textIdx, patIdx, st) ==
    LET endIdx    == p0_findClosingBrace(pat, patIdx)
        isNegated == At(pat, patIdx + 1) = "^"
        start     == IF isNegated THEN patIdx + 2 ELSE patIdx + 1
    IN  IF endIdx = -1 THEN p0_Ret(FALSE, st)
        ELSE IF patIdx + 1 >= Len(pat) \/ start > endIdx THEN p0_Panic(st)
        ELSE IF textIdx >= Len(text) THEN p0_Ret(FALSE, st)
        ELSE IF textIdx < 0 THEN p0_Panic(st)
        ELSE IF p0_matchChar(At(text, textIdx), Slice(pat, start, endIdx), isNegated)
             THEN p0_processAtom(text, pat, caps, textIdx, patIdx, st)
        ELSE p0_Ret(FALSE, st)

p0_matchRegex(text, pat, caps, textIdx, patIdx, st) ==
    LET key == p0_key(textIdx, patIdx, caps)
        st1 == p0_Store(st, key, FALSE)
    IN  IF st.on /\ key \in DOMAIN st.memo
        THEN p0_Ret(st.memo[key], p0_Read(st, textIdx, patIdx, caps))
        ELSE IF patIdx = Len(pat)
             THEN p0_Ret(textIdx = Len(text), p0_Store(st, key, textIdx = Len(text)))
        ELSE IF patIdx < 0 \/ patIdx > Len(pat) THEN p0_Panic(st1)
        ELSE IF At(pat, patIdx) = "$"
             THEN IF textIdx = Len(text) THEN p0_Ret(TRUE, p0_Store(st1, key, TRUE))
                  ELSE p0_Ret(FALSE, st1)
        ELSE IF At(pat, patIdx) = "^"
             THEN LET match == p0_matchRegex(text, pat, caps, 0, patIdx + 1, st1)
                  IN  IF match.panic THEN match
                      ELSE p0_Ret(match.ok, p0_Store(match, key, match.ok))
        ELSE IF At(pat, patIdx) = "\\" THEN p0_escape(text, pat, caps, textIdx, patIdx, st1)
        ELSE IF At(pat, patIdx) = "[" THEN p0_class(text, pat, caps, textIdx, patIdx, st1)
        ELSE IF At(pat, patIdx) = "."
             THEN IF textIdx >= Len(text) THEN p0_Ret(FALSE, st1)
                  ELSE p0_processAtom(text, pat, caps, textIdx, patIdx, st1)
        ELSE IF textIdx < Len(text)
             THEN IF textIdx < 0 THEN p0_Panic(st1)
                  ELSE IF At(pat, patIdx) = At(text, textIdx)
                       THEN p0_processAtom(text, pat, caps, textIdx, patIdx, st1)
                  ELSE p0_Ret(FALSE, st1)
        ELSE p0_Ret(FALSE, st1)

\* RegexMatcher.Match of src/unnamed/part_000: a fresh memo, the balance
\* check, then matchRegex from (0, 0) with no captures
p0_MatchCall(text, pat, out) ==
    IF ~p0_validatePattern(pat) THEN p0_Ret(FALSE, p0_Start(out, TRUE))
    ELSE p0_matchRegex(text, pat, << >>, 0, 0, p0_Start(out, TRUE))

\* matchRegex at (textIdx, patIdx) with every read and write of rm.memo removed
p0_matchRegexNoMemo(text, pat, caps, textIdx, patIdx) ==
    p0_matchRegex(text, pat, caps, textIdx, patIdx, p0_Start(<< >>, FALSE))

\* Match with every read and write of rm.memo removed
p0_MatchCallNoMemo(text, pat) ==
    IF ~p0_validatePattern(pat) THEN p0_Ret(FALSE, p0_Start(<< >>, FALSE))
    ELSE p0_matchRegexNoMemo(text, pat, << >>, 0, 0)

\* the boolean Match returns on a fresh matcher
p0_Matches(text, pat) == p0_MatchCall(text, pat, << >>).ok

(***************************************************************************)
(* The matcher of src/internal/matcher/regex.go: pure functions of the     *)
(* remaining text and the remaining pattern.                               *)
(***************************************************************************)

\* bytes.HasPrefix / strings.HasPrefix
HasPrefix(s, prefix) == Len(prefix) <= Len(s) /\ SubSeq(s, 1, Len(prefix)) = prefix

\* bytes.HasSuffix / strings.HasSuffix
HasSuffix(s, suffix) ==
    Len(suffix) <= Len(s) /\ SubSeq(s, Len(s) - Len(suffix) + 1, Len(s)) = suffix

\* strings.TrimSuffix
TrimSuffix(s, suffix) ==
    IF HasSuffix(s, suffix) THEN SubSeq(s, 1, Len(s) - Len(suffix)) ELSE s

\* bytes.Contains / strings.Contains
Contains(s, sub) == \E i \in 0..(Len(s) - Len(sub)) : SubSeq(s, i + 1, i + Len(sub)) = sub

\* bytes.IndexByte
IndexByte(s, c) ==
    IF \E i \in 1..Len(s) : s[i] = c
    THEN (CHOOSE i \in 1..Len(s) : s[i] = c /\ \A j \in 1..(i - 1) : s[j] # c) - 1
    ELSE -1

\* strings.SplitN(s, sep, 2)
SplitN2(s, sep) ==
    LET i == IndexByte(s, sep)
    IN  IF i = -1 THEN << s >> ELSE << Slice(s, 0, i), Slice(s, i + 1, Len(s)) >>

rx_isWord(c) == IsLetter(c) \/ IsDigit(c) \/ c = "_"

RECURSIVE rx_matchRegex(_, _)

rx_matchStartOfLine(text, pat) == rx_matchRegex(text, pat)

rx_matchPositveCharGroup(text, pat) ==
    LET end   == IndexByte(pat, "]")
        chars == Slice(pat, 1, end)
    IN  IF end = -1 THEN FALSE
        ELSE IF \E i \in 1..Len(chars) : chars[i] = text[1]
             THEN rx_matchRegex(Tail(text), Slice(pat, end + 1, Len(pat)))
        ELSE rx_matchRegex(Tail(text), pat)

rx_matchNegativeCharGroup(text, pat) ==
    LET end   == IndexByte(pat, "]")
        chars == Slice(pat, 2, end)
    IN  IF end = -1 THEN FALSE
        ELSE IF ~(\E i \in 1..Len(chars) : chars[i] = text[1])
             THEN rx_matchRegex(Tail(text), Slice(pat, end + 1, Len(pat)))
        ELSE rx_matchRegex(Tail(text), pat)

\* the length of the run of c at the head of text, counted from index 1 as
\* the loop of the '+' case counts it
RECURSIVE rx_runFrom(_, _, _)
rx_runFrom(text, c, i) ==
    IF i < Len(text) /\ At(text, i) = c THEN rx_runFrom(text, c, i + 1) ELSE i

\* the statements after the switch of matchRegex
rx_afterSwitch(text, pat) ==
    IF text[1] = pat[1] \/ pat[1] = "."
    THEN rx_matchRegex(Tail(text), Tail(pat))
    ELSE rx_matchRegex(Tail(text), pat)

rx_matchRegex(text, pat) ==
    IF Len(pat) = 0 THEN TRUE
    ELSE IF Len(text) = 0 THEN FALSE
    ELSE IF pat[1] = "^" THEN rx_matchStartOfLine(text, Tail(pat))
    ELSE IF Len(pat) > 1 /\ pat[2] = "?"
         THEN IF text[1] = pat[1]
              THEN rx_matchRegex(Tail(text), Tail(Tail(pat)))
                   \/ rx_matchRegex(text, Tail(Tail(pat)))
              ELSE rx_matchRegex(text, Tail(Tail(pat)))
    ELSE IF pat[1] = "$" THEN Len(pat) = 1 /\ Len(text) = 0
    ELSE IF pat[1] = "\\"
         THEN IF Len(pat) > 1 /\ pat[2] = "d" /\ IsDigit(text[1])
              THEN rx_matchRegex(Tail(text), Tail(Tail(pat)))
              ELSE IF Len(pat) > 1 /\ pat[2] = "w" /\ rx_isWord(text[1])
              THEN rx_matchRegex(Tail(text), Tail(Tail(pat)))
              ELSE rx_afterSwitch(text, pat)
    ELSE IF pat[1] = "["
         THEN IF Len(pat) > 1
              THEN IF pat[2] = "^" THEN rx_matchNegativeCharGroup(text, pat)
                   ELSE rx_matchPositveCharGroup(text, pat)
              ELSE rx_afterSwitch(text, pat)
    ELSE IF pat[1] = "." THEN rx_matchRegex(Tail(text), Tail(pat))
    ELSE IF Len(pat) > 1 /\ pat[2] = "+"
         THEN IF text[1] # pat[1] THEN FALSE
              ELSE LET i == rx_runFrom(text, pat[1], 1)
                   IN  rx_matchRegex(Slice(text, i, Len(text)), Tail(Tail(pat)))
    ELSE IF text[1] = pat[1] THEN rx_matchRegex(Tail(text), Tail(pat))
    ELSE rx_afterSwitch(text, pat)

\* does one of the alternatives, behind the prefix, occur in the text
rx_anyAlternative(text, prefix, alternatives) ==
    \E i \in 1..Len(alternatives) : Contains(text, prefix \o alternatives[i])

rx_matchAlternation(text, pat) ==
    LET parts == SplitN2(pat, "(")
    IN  IF Len(parts) < 2 THEN Contains(text, pat)
        ELSE rx_anyAlternative(text, parts[1], Split(TrimSuffix(parts[2], << ")" >>), "|"))

\* RegexMatcher.Match of src/internal/matcher/regex.go
rx_MatchCall(text, pat) ==
    IF HasPrefix(pat, << "^" >>) THEN HasPrefix(text, Tail(pat))
    ELSE IF HasSuffix(pat, << "$" >>) THEN HasSuffix(text, TrimSuffix(pat, << "$" >>))
    ELSE IF Contains(pat, << "(" >>) /\ Contains(pat, << "|" >>)
         THEN rx_matchAlternation(text, pat)
    ELSE rx_matchRegex(text, pat)

(***************************************************************************)
(* Inputs.                                                                 *)
(***************************************************************************)

\* all sequences over S of length at most n
SeqsUpTo(S, n) == UNION {[1..k -> S] : k \in 0..n}

\* the memo of a matcher on which Match has not run
EmptyMemo == [k \in {} |-> FALSE]

\* the goroutines that call Start on one Engine
NumCallers == 2

Callers == 1..NumCallers

\* New of part_006: an engine that is not running and has no tasks
e_New == [running |-> FALSE, tasks |-> << >>]

\* a goroutine that is in no call of Start and has made none yet
e_NoCall == [pc |-> "idle", iter |-> << >>, idx |-> 0, ctx |-> "live", ret |-> "none"]

\* NewVM: zeroed memory of the given size, pc 0 and an empty stack
NewVM(memorySize) ==
    [memory |-> [n \in 1..memorySize |-> 0], pc |-> 0, stack |-> << >>, running |-> FALSE]

\* nothing has been called on the VM yet
vm_Unseen ==
    [err |-> "none", loaded |-> FALSE, afterLoad |-> FALSE, program |-> << >>,
     pc0 |-> 0, stack0 |-> << >>, top |-> 0, topErr |-> "none"]

\* a new Engine with no call on it and a VM without memory
pkg_Fresh ==
    /\ engine = e_New
    /\ e_calls = [g \in Callers |-> e_NoCall]
    /\ e_seen = "none"
    /\ vm = NewVM(0)
    /\ vm_seen = vm_Unseen

\* the matchers and the driver before anything has run on inputs drawn from
\* Texts and Patterns
GrepFresh(Texts, Patterns, start) ==
    /\ line \in Texts
    /\ pattern \in Patterns
    /\ pc = start
    /\ rmPattern = << >>
    /\ newErr = FALSE
    /\ result = FALSE
    /\ panicked = FALSE
    /\ captures = << >>
    /\ memo = EmptyMemo
    /\ stdout = << >>
    /\ tried = << >>
    /\ reads = << >>
    /\ rstack = << >>
    /\ ret = "none"
    /\ args = << >>
    /\ stdin = << >>
    /\ scanned = 0
    /\ exitCode = -1
    /\ parked = << >>
    /\ switches = 0

\* the state before anything has run
Fresh(Texts, Patterns, start) ==
    /\ GrepFresh(Texts, Patterns, start)
    /\ pkg_Fresh

(***************************************************************************)
(* The operations of src/scrap/r.txt.                                      *)
(***************************************************************************)

\* NewRegexMatcher: stores the pattern and returns a nil error
r_NewRegexMatcher ==
    /\ pc = "new"
    /\ rmPattern' = pattern
    /\ newErr' = FALSE
    /\ pc' = "call"
    /\ UNCHANGED <<line, pattern, result, panicked, captures, memo, stdout, p0_ghost, r_frames, r_conc, pkg_vars, main_vars>>

\* RegexMatcher.Match
r_Match ==
    /\ pc = "call"
    /\ \E r \in {r_MatchCall(line, pattern)} :
           /\ result' = r.ok
           /\ panicked' = r.panic
           /\ captures' = r.caps
    /\ pc' = "done"
    /\ UNCHANGED <<line, pattern, rmPattern, newErr, memo, stdout, p0_ghost, r_frames, r_conc, pkg_vars, main_vars>>

r_Next == r_NewRegexMatcher \/ r_Match

(***************************************************************************)
(* Literal patterns (src/scrap/r.txt).                                     *)
(***************************************************************************)

MaxLitLen == 3

\* two letters, two characters the engine gives no meaning to, and the wildcard
LitAlphabet == {"a", "b", ")", "."}

\* the characters the engine treats specially
r_Special == {".", "*", "+", "?", "(", "[", "{", "^", "$", "\\"}

Ordinary(pat) == \A i \in 1..Len(pat) : pat[i] \notin r_Special

InitLiteral ==
    Fresh(SeqsUpTo(LitAlphabet, MaxLitLen), SeqsUpTo(LitAlphabet, MaxLitLen), "new")

SpecLiteral == InitLiteral /\ [][r_Next]_vars

MaxCount == 3

MaxRun == 5

BraceLetters == {"a", "b"}

\* c{m}
BraceExact(c, m) == << c, "{" >> \o Itoa(m) \o << "}" >>

\* c{m,}
BraceAtLeast(c, m) == << c, "{" >> \o Itoa(m) \o << ",", "}" >>

\* c{m,n}
BraceBetween(c, m, n) == << c, "{" >> \o Itoa(m) \o << "," >> \o Itoa(n) \o << "}" >>

BracePatterns ==
    {BraceExact(c, m) : c \in BraceLetters, m \in 0..MaxCount}
    \cup {BraceAtLeast(c, m) : c \in BraceLetters, m \in 0..MaxCount}
    \cup {BraceBetween(c, m[1], m[2]) : c \in BraceLetters,
                                        m \in (0..MaxCount) \X (0..MaxCount)}

\* a run of k characters c
Run(c, k) == [i \in 1..k |-> c]

InitBrace == Fresh(SeqsUpTo(BraceLetters, MaxRun), BracePatterns, "new")

SpecBrace == InitBrace /\ [][r_Next]_vars

\* C3: a literal c followed by {m,n} matches a run of exactly k consecutive
\* c's if and only if m <= k <= n; {m} means n = m and {m,} has no upper bound.
C3_CountedRun ==
    pc = "done" =>
        \A c \in BraceLetters, k \in 0..MaxRun :
            line = Run(c, k) =>
                \A m \in 0..MaxCount :
                    /\ pattern = BraceExact(c, m) => (result <=> k = m)
                    /\ pattern = BraceAtLeast(c, m) => (result <=> k >= m)
                    /\ \A n \in 0..MaxCount :
                          pattern = BraceBetween(c, m, n) => (result <=> (m <= k /\ k <= n))

(***************************************************************************)
(* Groups, backreferences and quantified atoms (src/scrap/r.txt).          *)
(***************************************************************************)

MaxGroupText == 4

GroupLetters == {"a", "b"}

\* the bodies of the group in front of a backreference
BackrefBodies == { << "a", "*" >>, << "a" >>, << "a", "b" >>, << "b", "?" >>, << >> }

\* what follows the backreference
BackrefRests == { << >>, << "b" >> }

\* (B)\N R
BackrefPattern(B, N, R) == << "(" >> \o B \o << ")", "\\", N >> \o R

BackrefPatterns ==
    {BackrefPattern(B, N, R) : B \in BackrefBodies, N \in {"1", "2"}, R \in BackrefRests}

\* the letters of the inner groups, each in its own group
NestedWords == { << "a", "b" >>, << "b", "a" >>, << "a", "b", "c" >> }

RECURSIVE Grouped(_)
\* (w1)(w2)...
Grouped(W) == IF W = << >> THEN << >> ELSE << "(", Head(W), ")" >> \o Grouped(Tail(W))

\* ((w1)(w2)...)\1
NestedPattern(W) == << "(" >> \o Grouped(W) \o << ")", "\\", "1" >>

NestedPatterns == {NestedPattern(W) : W \in NestedWords}

\* what follows the group (a+)
GreedyRests == { << >>, << "a", "*" >>, << ".", "*" >>, << "a" >>, << "b" >> }

\* (a+)R
GreedyPattern(R) == << "(", "a", "+", ")" >> \o R

GreedyPatterns == {GreedyPattern(R) : R \in GreedyRests}

RepeatWords == { << "a" >>, << "a", "b" >>, << "b", "a" >> }

\* (X)*
StarGroupPattern(X) == << "(" >> \o X \o << ")", "*" >>

RepeatClasses == { << "a" >>, << "a", "b" >>, << "b" >> }

\* [S]+
PlusClassPattern(S) == << "[" >> \o S \o << "]", "+" >>

RepeatPatterns ==
    {StarGroupPattern(X) : X \in RepeatWords} \cup {PlusClassPattern(S) : S \in RepeatClasses}

GroupPatterns == BackrefPatterns \cup NestedPatterns \cup GreedyPatterns \cup RepeatPatterns

GroupTexts ==
    SeqsUpTo(GroupLetters, MaxGroupText)
    \cup { << "a", "b", "c", "a", "b", "c" >>, << "a", "b", "c", "a" >>, << "a", "b", "*" >> }

InitGroups == Fresh(GroupTexts, GroupPatterns, "new")

SpecGroups == InitGroups /\ [][r_Next]_vars

\* the sub-pattern B, alone, matches the whole of text
r_BodyMatches(text, B) == r_MatchCall(text, B).ok

\* C4: in (B)\N R the backreference succeeds exactly when capture N is
\* committed and the text at its position begins with the captured text, and
\* matching goes on behind the repeated text, an empty capture at the end of
\* the text included: the pattern matches exactly the texts x x R with x a text
\* the group body matches, and N = 1.
C4_Backreference ==
    pc = "done" =>
        \A B \in BackrefBodies, N \in {"1", "2"}, R \in BackrefRests :
            pattern = BackrefPattern(B, N, R) =>
                (result <=>
                    /\ N = "1"
                    /\ \E i \in 0..Len(line) :
                          /\ 2 * i <= Len(line)
                          /\ r_BodyMatches(Slice(line, 0, i), B)
                          /\ Slice(line, i, 2 * i) = Slice(line, 0, i)
                          /\ Slice(line, 2 * i, Len(line)) = R)

\* C5: groups are numbered by their opening parenthesis, also when nested:
\* ((w1)(w2)..)\1 repeats the text of the outermost group, so it matches
\* exactly the text w1 w2 .. w1 w2 ..
C5_NestedNumbering ==
    pc = "done" =>
        \A W \in NestedWords :
            pattern = NestedPattern(W) => (result <=> line = W \o W)

\* the group (a+) of the pattern can take i characters and the rest of the
\* pattern then matches the rest of the line
GreedyFeasible(i) ==
    /\ r_BodyMatches(Slice(line, 0, i), << "a", "+" >>)
    /\ r_matchRegex(line, pattern, i, 4, << << 0, i >> >>).ok

\* C6: when (a+) can take several lengths that all let the pattern match, the
\* capture committed when Match returns true is the longest of them.
C6_GreedyCapture ==
    (pc = "done" /\ result /\ pattern \in GreedyPatterns) =>
        /\ Len(captures) >= 1
        /\ captures[1][1] = 0
        /\ GreedyFeasible(captures[1][2])
        /\ \A i \in 0..Len(line) : GreedyFeasible(i) => i <= captures[1][2]

\* text is X repeated zero or more times
IsPower(text, X) ==
    /\ Len(text) % Len(X) = 0
    /\ \A i \in 1..Len(text) : text[i] = X[((i - 1) % Len(X)) + 1]

\* C7: a quantifier behind a group or a class repeats the whole atom: (X)*
\* matches the concatenations of zero or more X, [S]+ the texts of one or more
\* characters of S.
C7_QuantifiedAtom ==
    pc = "done" =>
        /\ \A X \in RepeatWords :
              pattern = StarGroupPattern(X) => (result <=> IsPower(line, X))
        /\ \A S \in RepeatClasses :
              pattern = PlusClassPattern(S) =>
                  (result <=> (Len(line) >= 1
                               /\ \A i \in 1..Len(line) : \E j \in 1..Len(S) : line[i] = S[j]))

(***************************************************************************)
(* Character classes (src/scrap/r.txt).                                    *)
(***************************************************************************)

MaxClassMembers == 2

ClassChars == {"a", "c", "*"}

\* the member lists: plain members, and the range a-c alone or beside a member
ClassMembers ==
    SeqsUpTo(ClassChars, MaxClassMembers)
    \cup { << "a", "-", "c" >>, << "a", "-", "c", "*" >>, << "*", "a", "-", "c" >> }

\* [M] and [^M]
ClassPattern(M, negated) ==
    << "[" >> \o (IF negated THEN << "^" >> ELSE << >>) \o M \o << "]" >>

ClassPatterns == {ClassPattern(M, neg) : M \in ClassMembers, neg \in BOOLEAN}

ClassTexts == SeqsUpTo({"a", "b", "c", "*"}, 2)

InitClass == Fresh(ClassTexts, ClassPatterns, "new")

SpecClass == InitClass /\ [][r_Next]_vars

\* the positions of M that hold the '-' of a range lo-hi
RangeDashes(M) == {i \in 2..(Len(M) - 1) : M[i] = "-"}

\* c is a listed member of M or lies inside one of its ranges
InClass(c, M) ==
    \/ \E i \in 1..Len(M) :
          /\ M[i] = c
          /\ \A d \in RangeDashes(M) : i \notin {d - 1, d, d + 1}
    \/ \E d \in RangeDashes(M) : Code(M[d - 1]) <= Code(c) /\ Code(c) <= Code(M[d + 1])

\* C10: a class matches exactly one character c, and it does if and only if c
\* is a listed member or lies in a listed range, inverted by a leading ^; at
\* the end of the text it does not match.
C10_CharacterClass ==
    pc = "done" =>
        \A M \in ClassMembers, neg \in BOOLEAN :
            pattern = ClassPattern(M, neg) =>
                (result <=> (Len(line) = 1 /\ (InClass(line[1], M) <=> ~neg)))

(***************************************************************************)
(* The operations of src/unnamed/part_000.                                 *)
(***************************************************************************)

\* RegexMatcher.Match
p0_Match ==
    /\ pc = "call"
    /\ \E r \in {p0_MatchCall(line, pattern, stdout)} :
           /\ result' = r.ok
           /\ panicked' = r.panic
           /\ memo' = r.memo
           /\ stdout' = r.out
           /\ tried' = r.tried
           /\ reads' = r.reads
    /\ pc' = "done"
    /\ UNCHANGED <<line, pattern, rmPattern, newErr, captures, r_frames, r_conc, pkg_vars, main_vars>>

p0_Next == p0_Match

MaxMemoPat == 4

MaxMemoText == 3

MemoLetters == {"a", "b"}

InitMemo ==
    Fresh(SeqsUpTo(MemoLetters, MaxMemoText),
          SeqsUpTo(MemoLetters \cup {"*", "+", "?"}, MaxMemoPat), "call")

SpecMemo == InitMemo /\ [][p0_Next]_vars

\* C2: X* can match zero characters wherever it stands: whenever the rest R
\* of the pattern matches the text, so does X*R.
C2_StarMatchesZero ==
    (pc = "done" /\ Len(pattern) >= 2 /\ pattern[1] \in MemoLetters /\ pattern[2] = "*") =>
        (p0_Matches(line, SubSeq(pattern, 3, Len(pattern))) => result)

\* the pattern without its character at position i
Without(pat, i) == SubSeq(pat, 1, i - 1) \o SubSeq(pat, i + 1, Len(pat))

\* position i of the pattern holds the lazy suffix of a + or * that follows a letter
IsLazySuffix(pat, i) ==
    /\ i >= 3 /\ i <= Len(pat)
    /\ pat[i] = "?"
    /\ pat[i - 1] \in {"+", "*"}
    /\ pat[i - 2] \in MemoLetters

\* C8: the lazy suffix changes the search order only: the pattern matches a
\* text exactly when the pattern without the suffix does.
C8_LazyEqualsGreedy ==
    pc = "done" =>
        \A i \in 1..Len(pattern) :
            IsLazySuffix(pattern, i) => (result <=> p0_Matches(line, Without(pattern, i)))

(***************************************************************************)
(* The operations of src/internal/matcher/regex.go.                        *)
(***************************************************************************)

\* RegexMatcher.Match
rx_Match ==
    /\ pc = "call"
    /\ result' = rx_MatchCall(line, pattern)
    /\ pc' = "done"
    /\ UNCHANGED <<line, pattern, rmPattern, newErr, panicked, captures, memo, stdout, p0_ghost, r_frames, r_conc, pkg_vars, main_vars>>

rx_Next == rx_Match

MaxAltPat == 4

MaxAltText == 3

AltLetters == {"a", "b"}

InitAlt ==
    Fresh(SeqsUpTo(AltLetters \cup {"p"}, MaxAltText),
          SeqsUpTo(AltLetters \cup {"|", "("}, MaxAltPat), "call")

SpecAlt == InitAlt /\ [][rx_Next]_vars

\* the literal alternatives tried in front of and behind a '|'
AltWords == SeqsUpTo(AltLetters, MaxAltPat) \ { << >> }

\* C9: A|B matches a line if and only if A matches the line or B matches it.
C9_Alternation ==
    pc = "done" =>
        \A A \in AltWords, B \in AltWords :
            pattern = A \o << "|" >> \o B =>
                (result <=> (rx_MatchCall(line, A) \/ rx_MatchCall(line, B)))

(***************************************************************************)
(* Pattern validation (src/unnamed/part_000).                              *)
(***************************************************************************)

MaxBalancePat == 4

BalanceChars == {"(", ")", "[", "]", "a"}

InitBalance ==
    Fresh(SeqsUpTo({"a", "("}, 2), SeqsUpTo(BalanceChars, MaxBalancePat), "call")

SpecBalance == InitBalance /\ [][p0_Next]_vars

\* the ( ) [ ] characters of a pattern, in order
Brackets(pat) == SelectSeq(pat, LAMBDA c : c \in {"(", ")", "[", "]"})

RECURSIVE Reduced(_)
\* what is left of a bracket sequence when adjacent () and [] pairs are
\* deleted until none is left
Reduced(s) ==
    LET pairs == {i \in 1..(Len(s) - 1) :
                    <<s[i], s[i + 1]>> \in { <<"(", ")">>, <<"[", "]">> }}
        i     == CHOOSE j \in pairs : TRUE
    IN  IF pairs = {} THEN s
        ELSE Reduced(SubSeq(s, 1, i - 1) \o SubSeq(s, i + 2, Len(s)))

\* the brackets of the pattern form a properly nested sequence
ProperlyNested(pat) == Reduced(Brackets(pat)) = << >>

\* C11: validatePattern reports an error exactly for the patterns whose
\* ( ) [ ] characters are not properly nested; for those Match returns false
\* and matchRegex is never called (it would leave an entry in rm.memo and,
\* behind an atom, a line on the standard output); for all others it is.
C11_RejectsExactlyUnbalanced ==
    pc = "done" =>
        /\ p0_validatePattern(pattern) <=> ProperlyNested(pattern)
        /\ ~ProperlyNested(pattern) =>
              (~result /\ ~panicked /\ memo = EmptyMemo /\ stdout = << >> /\ tried = << >>)
        /\ ProperlyNested(pattern) => memo # EmptyMemo

\* Match has rejected ([)], whose openers and closers pair up only by count
C11_Witness ==
    /\ pc = "done"
    /\ pattern = << "(", "[", ")", "]" >>
    /\ line = << "a" >>
    /\ ~result
    /\ memo = EmptyMemo

(***************************************************************************)
(* Malformed patterns handed to NewRegexMatcher (src/scrap/r.txt).         *)
(***************************************************************************)

MaxInvalidText == 3

\* the malformed patterns of TestRegexMatcherInvalidPatterns: an unclosed
\* parenthesis, bracket and brace, an invalid quantifier, and a
\* backreference to a group that does not exist
InvalidPatterns ==
    { << "(", "a", "b", "c" >>,
      << "[", "a", "b", "c" >>,
      << "a", "{", "2", "," >>,
      << "a", "{", ",", "}" >>,
      << "\\", "2", "(", "a", ")" >> }

InitInvalid == Fresh(SeqsUpTo({"a", "b", "c"}, MaxInvalidText), InvalidPatterns, "new")

SpecInvalid == InitInvalid /\ [][r_Next]_vars

\* C12: once NewRegexMatcher has run on a malformed pattern, it has returned
\* a non-nil error.
C12_InvalidPatternRejected ==
    (pc # "new" /\ pattern \in InvalidPatterns) => newErr

(***************************************************************************)
(* Anchors (src/unnamed/part_000).                                         *)
(***************************************************************************)

MaxAnchorPat == 4

MaxAnchorText == 3

AnchorLetters == {"a", "b"}

InitAnchor ==
    Fresh(SeqsUpTo(AnchorLetters, MaxAnchorText),
          SeqsUpTo(AnchorLetters \cup {"^", "$"}, MaxAnchorPat), "call")

SpecAnchor == InitAnchor /\ [][p0_Next]_vars

RECURSIVE Positional(_, _, _, _)
\* a pattern of letters and anchors read with ^ and $ as assertions on the
\* text index t: ^ holds at t = 0 only, $ at t = Len(text) only, neither
\* moves t, and the pattern behind them must match as well
Positional(text, pat, t, p) ==
    IF p = Len(pat) THEN t = Len(text)
    ELSE IF At(pat, p) = "^" THEN t = 0 /\ Positional(text, pat, t, p + 1)
    ELSE IF At(pat, p) = "$" THEN t = Len(text) /\ Positional(text, pat, t, p + 1)
    ELSE t < Len(text) /\ At(text, t) = At(pat, p) /\ Positional(text, pat, t + 1, p + 1)

\* C14: on patterns of letters and anchors, Match accepts exactly the texts
\* the pattern matches with ^ and $ read as positional assertions.
C14_AnchorsArePositional ==
    pc = "done" => (result <=> Positional(line, pattern, 0, 0))

(***************************************************************************)
(* The start anchor (src/internal/matcher/regex.go).                       *)
(***************************************************************************)

MaxCaretPat == 4

MaxCaretText == 3

CaretLetters == {"a", "b"}

InitCaret ==
    Fresh(SeqsUpTo(CaretLetters, MaxCaretText),
          SeqsUpTo(CaretLetters \cup {"^", "+", "."}, MaxCaretPat), "call")

SpecCaret == InitCaret /\ [][rx_Next]_vars

\* a regular expression of letters, dots and +, every + behind a letter or dot
PlusExpression(P) ==
    /\ \A i \in 1..Len(P) : P[i] \in CaretLetters \cup {"+", "."}
    /\ \A i \in 1..Len(P) : P[i] = "+" => (i > 1 /\ P[i - 1] # "+")

RECURSIVE StartsWith(_, _)
\* the regular expression P matches a prefix of the text
StartsWith(text, P) ==
    IF P = << >> THEN TRUE
    ELSE IF Len(P) >= 2 /\ P[2] = "+"
         THEN \E k \in 1..Len(text) :
                 /\ \A j \in 1..k : P[1] = "." \/ P[1] = text[j]
                 /\ StartsWith(SubSeq(text, k + 1, Len(text)), SubSeq(P, 3, Len(P)))
    ELSE /\ Len(text) >= 1
         /\ P[1] = "." \/ P[1] = text[1]
         /\ StartsWith(Tail(text), Tail(P))

\* C15: for a pattern ^P, Match is true exactly when the regular expression
\* P matches starting at the first character of the line.
C15_CaretAnchorsExpression ==
    (pc = "done" /\ Len(pattern) >= 1 /\ pattern[1] = "^" /\ PlusExpression(Tail(pattern))) =>
        (result <=> StartsWith(line, Tail(pattern)))

(***************************************************************************)
(* Class escapes (src/unnamed/part_000).                                   *)
(***************************************************************************)

MaxEscapePat == 3

MaxEscapeText == 2

EscapeLetters == {"d", "w", "s"}

InitEscape ==
    Fresh(SeqsUpTo({"5", "d", " ", "-"}, MaxEscapeText),
          SeqsUpTo(EscapeLetters \cup {"\\"}, MaxEscapePat), "call")

SpecEscape == InitEscape /\ [][p0_Next]_vars

\* the character c belongs to the class the escape letter e names
InEscapeClass(c, e) ==
    CASE e = "d" -> IsDigit(c)
      [] e = "w" -> IsLetter(c) \/ IsDigit(c) \/ c = "_"
      [] e = "s" -> IsSpace(c)

\* C16: a pattern that is one class escape \d, \w or \s matches exactly the
\* texts of one character of the class: the two-character token is consumed
\* whole and the escape letter is not matched against the text again.
C16_ClassEscape ==
    (pc = "done" /\ Len(pattern) = 2 /\ pattern[1] = "\\" /\ pattern[2] \in EscapeLetters) =>
        (result <=> (Len(line) = 1 /\ InEscapeClass(line[1], pattern[2])))

(***************************************************************************)
(* Repeated calls on one RegexMatcher (src/unnamed/part_000).              *)
(***************************************************************************)

MaxReusePat == 2

MaxReuseText == 2

ReuseTexts == SeqsUpTo({"a", "b"}, MaxReuseText)

ReusePatterns == SeqsUpTo({"a", "b", "*"}, MaxReusePat)

\* a second call of Match on the same RegexMatcher, with a text and a
\* pattern of the caller's choice
p0_MatchAgain ==
    /\ pc = "done"
    /\ \E t \in ReuseTexts, p \in ReusePatterns :
          \E r \in {p0_MatchCall(t, p, stdout)} :
             /\ line' = t
             /\ pattern' = p
             /\ result' = r.ok
             /\ panicked' = r.panic
             /\ memo' = r.memo
             /\ stdout' = r.out
             /\ tried' = r.tried
             /\ reads' = r.reads
    /\ pc' = "again"
    /\ UNCHANGED <<rmPattern, newErr, captures, r_frames, r_conc, pkg_vars, main_vars>>

p0_NextReuse == p0_Match \/ p0_MatchAgain

InitReuse == Fresh(ReuseTexts, ReusePatterns, "call")

SpecReuse == InitReuse /\ [][p0_NextReuse]_vars

\* C17: whatever was called before on the matcher, a call of Match has
\* written nothing to the standard output and has returned what Match
\* returns for this text and pattern on a fresh matcher.
C17_NoSideEffect ==
    pc \in {"done", "again"} =>
        (stdout = << >> /\ result = p0_Matches(line, pattern))

(***************************************************************************)
(* The driver of src/unnamed/part_002.  Its matcher is the RegexMatcher    *)
(* of the package it imports, src/internal/matcher/regex.go.               *)
(***************************************************************************)

MaxArgs == 4

MaxLines == 2

\* the argument -E
FlagE == << "-", "E" >>

\* the patterns given on the command line
DriverPatterns == { << "a" >>, << "a", "b" >>, << "b", "+" >>, << "^", "a" >> }

\* os.Args: the program name, then up to MaxArgs - 1 arguments
ArgVectors ==
    {a \in SeqsUpTo({ << "m" >>, FlagE, << "-", "F" >> } \cup DriverPatterns, MaxArgs) :
        /\ Len(a) >= 1 /\ a[1] = << "m" >>
        /\ \A i \in 2..Len(a) : a[i] # << "m" >>
        /\ Len(a) >= 2 => a[2] \in {FlagE, << "-", "F" >>}
        /\ \A i \in 3..Len(a) : a[i] \in DriverPatterns}

\* the lines that may stand on the standard input
InputLines == { << >>, << "a" >>, << "b" >>, << "a", "b" >>, << "b", "b" >> }

\* the standard input: the lines the scanner will return, and whether the
\* read that follows them fails (err) or reports the end of the input
Inputs == [lines : SeqsUpTo(InputLines, MaxLines), err : BOOLEAN]

\* a usage test that only counts the arguments
main_usage_count(a) == Len(a) < 3

\* a usage error: a wrong argument count or first argument
main_usage(a) == IF Len(a) < 3 THEN TRUE ELSE a[2] # FlagE

InitDriver ==
    /\ args \in ArgVectors
    /\ stdin \in Inputs
    /\ scanned = 0
    /\ exitCode = -1
    /\ parked = << >>
    /\ switches = 0
    /\ pkg_Fresh
    /\ pc = "main"
    /\ line = << >>
    /\ pattern = << >>
    /\ result = FALSE
    /\ rmPattern = << >>
    /\ newErr = FALSE
    /\ panicked = FALSE
    /\ captures = << >>
    /\ memo = EmptyMemo
    /\ stdout = << >>
    /\ tried = << >>
    /\ reads = << >>
    /\ rstack = << >>
    /\ ret = "none"

\* lines 12-15: the usage message and os.Exit(2)
main_Usage ==
    /\ pc = "main"
    /\ main_usage(args)
    /\ exitCode' = 2
    /\ pc' = "exited"
    /\ UNCHANGED <<line, pattern, rmPattern, newErr, result, panicked, captures, memo,
                   stdout, p0_ghost, r_frames, r_conc, pkg_vars, args, stdin, scanned>>

\* lines 17-21: pattern := os.Args[2], the scanner, matchFound := false
main_Start ==
    /\ pc = "main"
    /\ ~main_usage(args)
    /\ pattern' = args[3]
    /\ result' = FALSE
    /\ pc' = "scan"
    /\ UNCHANGED <<line, rmPattern, newErr, panicked, captures, memo, stdout, p0_ghost,
                   r_frames, r_conc, pkg_vars, main_vars>>

\* lines 24-30, one turn of the loop: scanner.Scan() returns a line, Match is
\* called on it, and a match sets matchFound (kept in result) and breaks
main_Scan ==
    /\ pc = "scan"
    /\ scanned < Len(stdin.lines)
    /\ line' = stdin.lines[scanned + 1]
    /\ scanned' = scanned + 1
    /\ result' = rx_MatchCall(stdin.lines[scanned + 1], pattern)
    /\ pc' = IF rx_MatchCall(stdin.lines[scanned + 1], pattern) THEN "finish" ELSE "scan"
    /\ UNCHANGED <<pattern, rmPattern, newErr, panicked, captures, memo, stdout, p0_ghost,
                   r_frames, r_conc, pkg_vars, args, stdin, exitCode>>

\* line 24: scanner.Scan() returns false, at the end of the input or on a
\* failed read
main_EndOfInput ==
    /\ pc = "scan"
    /\ scanned = Len(stdin.lines)
    /\ pc' = "finish"
    /\ UNCHANGED <<line, pattern, rmPattern, newErr, result, panicked, captures, memo,
                   stdout, p0_ghost, r_frames, r_conc, pkg_vars, main_vars>>

\* lines 32-41: exit 1 on a read error or when nothing matched, else exit 0
main_Exit ==
    /\ pc = "finish"
    /\ exitCode' = IF ~result /\ stdin.err THEN 1
                   ELSE IF ~result THEN 1
                   ELSE 0
    /\ pc' = "exited"
    /\ UNCHANGED <<line, pattern, rmPattern, newErr, result, panicked, captures, memo,
                   stdout, p0_ghost, r_frames, r_conc, pkg_vars, args, stdin, scanned>>

main_Next == main_Usage \/ main_Start \/ main_Scan \/ main_EndOfInput \/ main_Exit

SpecDriver == InitDriver /\ [][main_Next]_vars

\* the positions of the input lines that Match accepts for the pattern p
Accepted(p) == {i \in 1..Len(stdin.lines) : rx_MatchCall(stdin.lines[i], p)}

MaxQuantCount == 2

MaxQuantText == 3

QuantAtoms == {"a", ".", "}"}

\* the quantifiers processAtom recognises: * + ? and their lazy forms, and
\* {m}, {m,}, {m,n} with and without the lazy suffix
QuantSuffixes ==
    LET simple == { << "*" >>, << "+" >>, << "?" >>,
                    << "*", "?" >>, << "+", "?" >>, << "?", "?" >> }
        braces == {<< "{" >> \o Itoa(m) \o << "}" >> : m \in 0..MaxQuantCount}
                  \cup {<< "{" >> \o Itoa(m) \o << ",", "}" >> : m \in 0..MaxQuantCount}
                  \cup {<< "{" >> \o Itoa(m) \o << "," >> \o Itoa(n) \o << "}" >> :
                           m \in 0..MaxQuantCount, n \in 0..MaxQuantCount}
    IN  simple \cup braces \cup {b \o << "?" >> : b \in braces}

\* what follows the quantified atom
QuantRests ==
    { << >>, << "a" >>, << "?" >>, << "}" >>, << "a", "a" >>, << "?", "a" >>, << "a", "*" >> }

QuantPatterns == {<< x >> \o q \o r : x \in QuantAtoms, q \in QuantSuffixes, r \in QuantRests}

InitQuant == Fresh(SeqsUpTo({"a", "}", "?"}, MaxQuantText), QuantPatterns, "call")

SpecQuant == InitQuant /\ [][p0_Next]_vars

\* the counts call c of handleQuantifier tried are in strictly descending
\* order for a greedy quantifier and strictly ascending for a lazy one
InOrder(c) ==
    \A j \in 1..(Len(c.counts) - 1) :
        IF c.ng THEN c.counts[j] < c.counts[j + 1] ELSE c.counts[j] > c.counts[j + 1]

\* count k is within the bounds of call c, and the k characters from its
\* cursor all match the atom
Feasible(c, k) ==
    /\ c.min <= k
    /\ c.max = -1 \/ k <= c.max
    /\ c.textIdx + k <= Len(line)
    /\ \A i \in 0..(k - 1) : p0_matchesAtom(At(line, c.textIdx + i), pattern, c.patIdx)

\* call c stopped trying at the first count whose continuation matched, and
\* returned true exactly then
FirstSuccess(c) ==
    /\ \A j \in 1..Len(c.conts) : c.conts[j] => (j = Len(c.counts) /\ c.returned = "true")
    /\ c.returned = "true" => (c.conts # << >> /\ c.conts[Len(c.conts)])
    /\ c.returned = "false" => Len(c.conts) = Len(c.counts)

\* C19: every call of handleQuantifier made during Match tried its counts in
\* strictly descending order when greedy and strictly ascending order when
\* lazy, tried only counts within [min, max] whose characters all match the
\* atom, and returned true at the first count whose continuation matched.
C19_QuantifierOrder ==
    pc = "done" =>
        \A n \in 1..Len(tried) :
            /\ InOrder(tried[n])
            /\ \A j \in 1..Len(tried[n].counts) : Feasible(tried[n], tried[n].counts[j])
            /\ FirstSuccess(tried[n])

\* a greedy call has tried two counts, the larger first, and returned true
\* at the second
C19_Witness ==
    /\ pc = "done"
    /\ result
    /\ \E n \in 1..Len(tried) :
          /\ ~tried[n].ng
          /\ tried[n].counts = << 2, 1 >>
          /\ tried[n].conts = << FALSE, TRUE >>
          /\ tried[n].returned = "true"

(***************************************************************************)
(* The memo of src/unnamed/part_000 against the same recursion without it. *)
(***************************************************************************)

MaxCachePat == 3

MaxCacheText == 3

CacheLetters == {"a", "*", "+", "?", "^", "$"}

\* what follows two quantified atoms
MaxCacheRest == 2

CacheQuantifiers ==
    { << "*" >>, << "+" >>, << "?" >>, << "*", "?" >>, << "+", "?" >>, << "?", "?" >> }

\* every short pattern, and the patterns a q a q' R in which two quantified
\* atoms reach the same text index by different counts
CachePatterns ==
    SeqsUpTo(CacheLetters, MaxCachePat)
    \cup {<< "a" >> \o q1 \o << "a" >> \o q2 \o r :
             q1 \in CacheQuantifiers, q2 \in CacheQuantifiers,
             r \in SeqsUpTo({"a", "^", "$"}, MaxCacheRest)}

InitCache == Fresh(SeqsUpTo({"a", "b"}, MaxCacheText), CachePatterns, "call")

SpecCache == InitCache /\ [][p0_Next]_vars

\* a value read from rm.memo is the value matchRegex computes for that key
\* when it neither reads nor writes rm.memo
FreshValue(r) ==
    /\ ~p0_matchRegexNoMemo(line, pattern, r.caps, r.textIdx, r.patIdx).panic
    /\ r.val = p0_matchRegexNoMemo(line, pattern, r.caps, r.textIdx, r.patIdx).ok

\* C20: whenever Match returns, its result is the result of the same
\* recursion with every read and write of rm.memo removed, and every value
\* read back from rm.memo for a key (textIdx, patIdx, captures) is the value
\* a fresh evaluation of that key returns.
C20_MemoNeverChangesResult ==
    (pc = "done" /\ ~panicked) =>
        /\ result = p0_MatchCallNoMemo(line, pattern).ok
        /\ \A n \in 1..Len(reads) : FreshValue(reads[n])

\* Match has returned true after reading an entry back from rm.memo
C20_Witness ==
    /\ pc = "done"
    /\ ~panicked
    /\ result
    /\ reads # << >>

(***************************************************************************)
(* The engine of src/scrap/r.txt step by step: rstack is the call stack,   *)
(* one frame per active call of a method of RegexMatcher, and ret is the   *)
(* value the call that returned last handed to its caller.  A step runs    *)
(* the innermost frame up to its next call or to its return.  The loops    *)
(* that call nothing (findClosingParen and its like, the member scan, the  *)
(* exact count, the backreference comparison) run within one step.         *)
(***************************************************************************)

r_Frame(fn, text, pat, textIdx, patIdx) ==
    [fn |-> fn, text |-> text, pat |-> pat, textIdx |-> textIdx, patIdx |-> patIdx,
     at |-> "entry", i |-> 0, closing |-> 0, min |-> 0, max |-> 0, captureStart |-> 0,
     entered |-> << >>]

r_Top == rstack[Len(rstack)]

r_Callers == SubSeq(rstack, 1, Len(rstack) - 1)

r_Others ==
    UNCHANGED <<line, pattern, rmPattern, newErr, memo, stdout, p0_ghost, main_vars, r_conc, pkg_vars>>

\* the innermost call, continuing as frame f, calls callee; the frame of the
\* callee keeps rm.captures as it is at the call
r_Call(f, callee, caps) ==
    /\ rstack' = r_Callers \o << f, [callee EXCEPT !.entered = caps] >>
    /\ ret' = "none"
    /\ captures' = caps
    /\ UNCHANGED <<pc, result, panicked>>
    /\ r_Others

\* return rm.callee(...): the innermost call returns whatever callee returns
r_TailCall(f, callee) == r_Call([f EXCEPT !.at = "tail"], callee, captures)

\* the innermost call returns ok
r_Return(ok, caps) ==
    /\ rstack' = r_Callers
    /\ ret' = IF ok THEN "true" ELSE "false"
    /\ captures' = caps
    /\ UNCHANGED <<pc, result, panicked>>
    /\ r_Others

\* a runtime panic (index or slice bounds out of range) ends the call of Match
r_Abort ==
    /\ rstack' = << >>
    /\ ret' = "none"
    /\ panicked' = TRUE
    /\ result' = FALSE
    /\ pc' = "done"
    /\ UNCHANGED captures
    /\ r_Others

r_Running(fn) ==
    /\ pc = "run"
    /\ rstack # << >>
    /\ r_Top.fn = fn
    /\ r_Top.at # "tail"

\* Match: rm.captures = nil and the first call of matchRegex
r_Begin ==
    /\ pc = "call"
    /\ pc' = "run"
    /\ rstack' = << r_Frame("matchRegex", line, pattern, 0, 0) >>
    /\ ret' = "none"
    /\ captures' = << >>
    /\ UNCHANGED <<result, panicked>>
    /\ r_Others

\* Match returns what its call of matchRegex returned
r_Finish ==
    /\ pc = "run"
    /\ rstack = << >>
    /\ result' = (ret = "true")
    /\ pc' = "done"
    /\ UNCHANGED <<rstack, ret, captures, panicked>>
    /\ r_Others

\* the return of a statement return rm.f(...)
r_TailReturn ==
    /\ pc = "run"
    /\ rstack # << >>
    /\ r_Top.at = "tail"
    /\ r_Return(ret = "true", captures)

r_doMatchRegex(f) ==
    IF f.patIdx = Len(f.pat) THEN r_Return(r_patternEnd(f.text, f.textIdx), captures)
    ELSE IF f.patIdx + 1 < Len(f.pat) /\ At(f.pat, f.patIdx + 1) = "*"
         THEN r_TailCall(f, r_Frame("matchStar", f.text, f.pat, f.textIdx, f.patIdx))
    ELSE IF f.patIdx + 1 < Len(f.pat) /\ At(f.pat, f.patIdx + 1) = "+"
         THEN r_TailCall(f, r_Frame("matchPlus", f.text, f.pat, f.textIdx, f.patIdx))
    ELSE IF f.patIdx + 1 < Len(f.pat) /\ At(f.pat, f.patIdx + 1) = "?"
         THEN r_TailCall(f, r_Frame("matchOptional", f.text, f.pat, f.textIdx, f.patIdx))
    ELSE IF f.patIdx < 0 \/ f.patIdx > Len(f.pat) THEN r_Abort
    ELSE IF At(f.pat, f.patIdx) = "("
         THEN r_TailCall(f, r_Frame("handleCapturingGroup", f.text, f.pat, f.textIdx, f.patIdx))
    ELSE IF At(f.pat, f.patIdx) = "["
         THEN r_TailCall(f, r_Frame("handleCharacterClass", f.text, f.pat, f.textIdx, f.patIdx))
    ELSE IF At(f.pat, f.patIdx) = "^"
         THEN IF f.textIdx = 0
              THEN r_TailCall(f, r_Frame("matchRegex", f.text, f.pat, f.textIdx, f.patIdx + 1))
              ELSE r_Return(FALSE, captures)
    ELSE IF At(f.pat, f.patIdx) = "$"
         THEN IF f.textIdx = Len(f.text)
              THEN r_TailCall(f, r_Frame("matchRegex", f.text, f.pat, f.textIdx, f.patIdx + 1))
              ELSE r_Return(FALSE, captures)
    ELSE IF At(f.pat, f.patIdx) = "\\" /\ f.patIdx + 1 < Len(f.pat)
         THEN r_TailCall(f, r_Frame("handleEscapedChar", f.text, f.pat, f.textIdx, f.patIdx))
    ELSE IF At(f.pat, f.patIdx) = "{"
         THEN r_TailCall(f, r_Frame("handleQuantifier", f.text, f.pat, f.textIdx, f.patIdx))
    ELSE IF f.textIdx < Len(f.text)
         THEN IF At(f.pat, f.patIdx) = "."
              THEN r_TailCall(f, r_Frame("matchRegex", f.text, f.pat, f.textIdx + 1, f.patIdx + 1))
              ELSE IF f.textIdx < 0 THEN r_Abort
              ELSE IF At(f.pat, f.patIdx) = At(f.text, f.textIdx)
                   THEN r_TailCall(f, r_Frame("matchRegex", f.text, f.pat,
                                              f.textIdx + 1, f.patIdx + 1))
              ELSE r_Return(FALSE, captures)
    ELSE r_Return(FALSE, captures)

\* matchRegex up to its return or to the call it returns the value of
r_StepMatchRegex == r_Running("matchRegex") /\ r_doMatchRegex(r_Top)

\* iteration i of the loop of matchStar calls matchRegex
r_starCall(f, i) ==
    r_Call([f EXCEPT !.at = "loop", !.i = i],
           r_Frame("matchRegex", f.text, f.pat, f.textIdx + i, f.patIdx + 2), captures)

r_doMatchStar(f) ==
    IF f.at = "entry" THEN r_starCall(f, 0)
    ELSE IF ret = "true" THEN r_Return(TRUE, captures)
    ELSE IF f.textIdx + f.i = Len(f.text) THEN r_Return(FALSE, captures)
    ELSE IF At(f.pat, f.patIdx) # "."
         THEN IF f.textIdx + f.i < 0 \/ f.textIdx + f.i > Len(f.text) THEN r_Abort
              ELSE IF At(f.pat, f.patIdx) # At(f.text, f.textIdx + f.i)
                   THEN r_Return(FALSE, captures)
              ELSE r_starCall(f, f.i + 1)
    ELSE r_starCall(f, f.i + 1)

\* matchStar from its entry or from the return of its call of matchRegex to
\* the next call or to its return
r_StepMatchStar == r_Running("matchStar") /\ r_doMatchStar(r_Top)

r_doMatchPlus(f) ==
    IF f.textIdx = Len(f.text) THEN r_Return(FALSE, captures)
    ELSE IF At(f.pat, f.patIdx) # "."
         THEN IF f.textIdx < 0 \/ f.textIdx > Len(f.text) THEN r_Abort
              ELSE IF At(f.pat, f.patIdx) # At(f.text, f.textIdx)
                   THEN r_Return(FALSE, captures)
              ELSE r_TailCall(f, r_Frame("matchStar", f.text, f.pat, f.textIdx + 1, f.patIdx))
    ELSE r_TailCall(f, r_Frame("matchStar", f.text, f.pat, f.textIdx + 1, f.patIdx))

r_StepMatchPlus == r_Running("matchPlus") /\ r_doMatchPlus(r_Top)

r_doMatchOptional(f) ==
    IF f.at = "entry"
    THEN r_Call([f EXCEPT !.at = "first"],
                r_Frame("matchRegex", f.text, f.pat, f.textIdx, f.patIdx + 2), captures)
    ELSE IF ret = "true" THEN r_Return(TRUE, captures)
    ELSE IF f.textIdx < Len(f.text)
         THEN IF At(f.pat, f.patIdx) = "."
              THEN r_TailCall(f, r_Frame("matchRegex", f.text, f.pat, f.textIdx + 1, f.patIdx + 2))
              ELSE IF f.textIdx < 0 THEN r_Abort
              ELSE IF At(f.pat, f.patIdx) = At(f.text, f.textIdx)
                   THEN r_TailCall(f, r_Frame("matchRegex", f.text, f.pat,
                                              f.textIdx + 1, f.patIdx + 2))
              ELSE r_Return(FALSE, captures)
    ELSE r_Return(FALSE, captures)

r_StepMatchOptional == r_Running("matchOptional") /\ r_doMatchOptional(r_Top)

\* subPattern := pattern[patIdx+1 : closingParen]
r_subPattern_whole(pat, patIdx, closingParen) == pat

r_subPattern(pat, patIdx, closingParen) == Slice(pat, patIdx + 1, closingParen)

\* the head of the loop of handleCapturingGroup at candidate length i
r_groupLoop(f, i, caps) ==
    IF i > Len(f.text) - f.textIdx THEN r_Return(FALSE, caps)
    ELSE IF f.textIdx < 0 THEN r_Abort
    ELSE r_Call([f EXCEPT !.at = "sub", !.i = i],
                r_Frame("matchRegex", Slice(f.text, f.textIdx, f.textIdx + i),
                        r_subPattern(f.pat, f.patIdx, f.closing), 0, 0),
                caps)

\* spans a reslice beyond the length of rm.captures can bring back from the
\* backing array
r_StaleSpans == { << 0, 0 >>, << 0, 1 >> }

\* rm.captures = rm.captures[:captureStart] and the next turn of the loop.
\* The list is at least captureStart long unless another goroutine has
\* replaced it meanwhile; then the reslice panics (captureStart beyond the
\* capacity) or brings back stale spans of the backing array.
r_truncate(f) ==
    IF f.captureStart <= Len(captures)
    THEN r_groupLoop(f, f.i + 1, SubSeq(captures, 1, f.captureStart))
    ELSE \/ r_Abort
         \/ \E sp \in r_StaleSpans :
               r_groupLoop(f, f.i + 1,
                           captures \o [n \in 1..(f.captureStart - Len(captures)) |-> sp])

r_doHandleCapturingGroup(f) ==
    IF f.at = "entry"
    THEN IF r_findClosingParen(f.pat, f.patIdx) = -1 THEN r_Return(FALSE, captures)
         ELSE r_groupLoop([f EXCEPT !.closing = r_findClosingParen(f.pat, f.patIdx)], 0, captures)
    ELSE IF f.at = "sub"
    THEN IF ret = "true"
         THEN r_Call([f EXCEPT !.at = "rest", !.captureStart = Len(captures)],
                     r_Frame("matchRegex", f.text, f.pat, f.textIdx + f.i, f.closing + 1),
                     Append(captures, << f.textIdx, f.textIdx + f.i >>))
         ELSE r_groupLoop(f, f.i + 1, captures)
    ELSE IF ret = "true" THEN r_Return(TRUE, captures)
    ELSE r_truncate(f)

r_StepHandleCapturingGroup ==
    r_Running("handleCapturingGroup") /\ r_doHandleCapturingGroup(r_Top)

\* start of the members of the class at patIdx: behind [ or behind [^
r_classStart(pat, patIdx) == IF At(pat, patIdx + 1) = "^" THEN patIdx + 2 ELSE patIdx + 1

\* matched, after the member scan and the negation
r_classMatched(text, pat, textIdx, patIdx, closingBracket) ==
    (At(pat, patIdx + 1) = "^") #
        (/\ r_classStart(pat, patIdx) < closingBracket
         /\ r_classScan(pat, At(text, textIdx), r_classStart(pat, patIdx), closingBracket,
                        r_classStart(pat, patIdx)))

r_doHandleCharacterClass(f, closingBracket) ==
    IF closingBracket = -1 THEN r_Return(FALSE, captures)
    ELSE IF f.textIdx = Len(f.text) THEN r_Return(FALSE, captures)
    ELSE IF r_classStart(f.pat, f.patIdx) < closingBracket
            /\ (f.textIdx < 0 \/ f.textIdx > Len(f.text))
         THEN r_Abort
    ELSE IF r_classMatched(f.text, f.pat, f.textIdx, f.patIdx, closingBracket)
         THEN r_TailCall(f, r_Frame("matchRegex", f.text, f.pat, f.textIdx + 1, closingBracket + 1))
    ELSE r_Return(FALSE, captures)

r_StepHandleCharacterClass ==
    /\ r_Running("handleCharacterClass")
    /\ r_doHandleCharacterClass(r_Top, r_findClosingBracket(r_Top.pat, r_Top.patIdx))

\* the switch of handleEscapedChar lets the text character c pass
r_escapePasses(escapedChar, c) ==
    CASE escapedChar = "d" -> IsDigit(c)
      [] escapedChar = "D" -> ~IsDigit(c)
      [] escapedChar = "w" -> r_isWord(c)
      [] escapedChar = "W" -> ~r_isWord(c)
      [] escapedChar = "s" -> IsSpace(c)
      [] escapedChar = "S" -> ~IsSpace(c)
      [] OTHER -> c = escapedChar

r_doHandleEscapedChar(f, escapedChar) ==
    IF escapedChar \notin {"d", "D", "w", "W", "s", "S"}
       /\ Code(escapedChar) >= Code("1") /\ Code(escapedChar) <= Code("9")
    THEN r_TailCall(f, r_Frame("handleBackreference", f.text, f.pat, f.textIdx, f.patIdx))
    ELSE IF f.textIdx < 0 THEN r_Abort
    ELSE IF r_escapePasses(escapedChar, At(f.text, f.textIdx))
         THEN r_TailCall(f, r_Frame("matchRegex", f.text, f.pat, f.textIdx + 1, f.patIdx + 2))
    ELSE r_Return(FALSE, captures)

r_StepHandleEscapedChar ==
    /\ r_Running("handleEscapedChar")
    /\ IF r_Top.patIdx + 1 >= Len(r_Top.pat) THEN r_Return(FALSE, captures)
       ELSE IF r_Top.textIdx >= Len(r_Top.text) THEN r_Return(FALSE, captures)
       ELSE r_doHandleEscapedChar(r_Top, At(r_Top.pat, r_Top.patIdx + 1))

\* the comparison loop of handleBackreference: "equal", "differ", or "panic"
\* when text[textIdx+i] or text[capture[0]+i] is out of range
RECURSIVE r_compareCapture(_, _, _, _, _)
r_compareCapture(text, textIdx, capture, captureLen, i) ==
    IF i >= captureLen THEN "equal"
    ELSE IF textIdx + i < 0 \/ capture[1] + i >= Len(text) THEN "panic"
    ELSE IF At(text, textIdx + i) # At(text, capture[1] + i) THEN "differ"
    ELSE r_compareCapture(text, textIdx, capture, captureLen, i + 1)

r_doHandleBackreference(f, capture, captureLen) ==
    IF f.textIdx + captureLen > Len(f.text) THEN r_Return(FALSE, captures)
    ELSE IF r_compareCapture(f.text, f.textIdx, capture, captureLen, 0) = "panic" THEN r_Abort
    ELSE IF r_compareCapture(f.text, f.textIdx, capture, captureLen, 0) = "differ"
         THEN r_Return(FALSE, captures)
    ELSE r_TailCall(f, r_Frame("matchRegex", f.text, f.pat, f.textIdx + captureLen, f.patIdx + 2))

r_groupNum(f) == DigitVal(At(f.pat, f.patIdx + 1))

r_StepHandleBackreference ==
    /\ r_Running("handleBackreference")
    /\ IF r_groupNum(r_Top) <= 0 \/ r_groupNum(r_Top) > Len(captures)
       THEN r_Return(FALSE, captures)
       ELSE r_doHandleBackreference(r_Top, captures[r_groupNum(r_Top)],
                                    captures[r_groupNum(r_Top)][2] - captures[r_groupNum(r_Top)][1])

\* the exact-count loop of handleQuantifier from iteration i: "go" when all
\* min repetitions are there, else "stop" or "panic"
RECURSIVE r_exactLoop(_, _, _, _, _, _)
r_exactLoop(text, pat, textIdx, patIdx, min, i) ==
    IF i >= min THEN "go"
    ELSE IF r_quantStep(text, pat, textIdx, patIdx, i, textIdx + i >= Len(text)) = "go"
         THEN r_exactLoop(text, pat, textIdx, patIdx, min, i + 1)
    ELSE r_quantStep(text, pat, textIdx, patIdx, i, textIdx + i >= Len(text))

\* the range loop of handleQuantifier from the head of iteration i to its
\* next call of matchRegex ("call" in iteration i), to return false, or to a panic
RECURSIVE r_rangeLoop(_, _, _, _, _, _, _)
r_rangeLoop(text, pat, textIdx, patIdx, min, max, i) ==
    IF ~(i <= max /\ textIdx + i <= Len(text)) THEN [kind |-> "false", i |-> i]
    ELSE IF i >= min THEN [kind |-> "call", i |-> i]
    ELSE IF r_quantStep(text, pat, textIdx, patIdx, i, textIdx + i = Len(text)) = "go"
         THEN r_rangeLoop(text, pat, textIdx, patIdx, min, max, i + 1)
    ELSE IF r_quantStep(text, pat, textIdx, patIdx, i, textIdx + i = Len(text)) = "panic"
         THEN [kind |-> "panic", i |-> i]
    ELSE [kind |-> "false", i |-> i]

r_rangeGo(f, n) ==
    IF n.kind = "call"
    THEN r_Call([f EXCEPT !.at = "range", !.i = n.i],
                r_Frame("matchRegex", f.text, f.pat, f.textIdx + n.i, f.closing + 1), captures)
    ELSE IF n.kind = "panic" THEN r_Abort
    ELSE r_Return(FALSE, captures)

r_enterQuantifier(f, closingBrace, q) ==
    IF q.err THEN r_Return(FALSE, captures)
    ELSE IF q.min = q.max
         THEN IF r_exactLoop(f.text, f.pat, f.textIdx, f.patIdx, q.min, 0) = "go"
              THEN r_TailCall(f, r_Frame("matchRegex", f.text, f.pat,
                                         f.textIdx + q.min, closingBrace + 1))
              ELSE IF r_exactLoop(f.text, f.pat, f.textIdx, f.patIdx, q.min, 0) = "panic"
                   THEN r_Abort
              ELSE r_Return(FALSE, captures)
    ELSE r_rangeGo([f EXCEPT !.closing = closingBrace, !.min = q.min, !.max = q.max],
                   r_rangeLoop(f.text, f.pat, f.textIdx, f.patIdx, q.min, q.max, 0))

r_doHandleQuantifier(f) ==
    IF f.at = "entry"
    THEN IF r_findClosingBrace(f.pat, f.patIdx) = -1 THEN r_Return(FALSE, captures)
         ELSE r_enterQuantifier(f, r_findClosingBrace(f.pat, f.patIdx),
                  r_parseQuantifier(Slice(f.pat, f.patIdx + 1, r_findClosingBrace(f.pat, f.patIdx))))
    ELSE IF ret = "true" THEN r_Return(TRUE, captures)
    ELSE IF r_quantStep(f.text, f.pat, f.textIdx, f.patIdx, f.i,
                        f.textIdx + f.i = Len(f.text)) = "panic"
         THEN r_Abort
    ELSE IF r_quantStep(f.text, f.pat, f.textIdx, f.patIdx, f.i,
                        f.textIdx + f.i = Len(f.text)) = "stop"
         THEN r_Return(FALSE, captures)
    ELSE r_rangeGo(f, r_rangeLoop(f.text, f.pat, f.textIdx, f.patIdx, f.min, f.max, f.i + 1))

r_StepHandleQuantifier == r_Running("handleQuantifier") /\ r_doHandleQuantifier(r_Top)

r_StepNext ==
    \/ r_NewRegexMatcher
    \/ r_Begin
    \/ r_StepMatchRegex
    \/ r_StepMatchStar
    \/ r_StepMatchPlus
    \/ r_StepMatchOptional
    \/ r_StepHandleCapturingGroup
    \/ r_StepHandleCharacterClass
    \/ r_StepHandleEscapedChar
    \/ r_StepHandleBackreference
    \/ r_StepHandleQuantifier
    \/ r_TailReturn
    \/ r_Finish

MaxStepPat == 3

MaxStepText == 3

StepLetters == {"a", ".", "*", "(", ")"}

\* patterns that reach matchPlus, matchOptional, the classes, the escapes,
\* the backreferences and the brace quantifiers, some of them with a negative
\* count, which moves the text index backwards
StepSamples ==
    { << "a", "+", "b" >>, << ".", "+" >>, << "a", "?", "b" >>, << "b", "?", "a", "?" >>,
      << "[", "a", "b", "]", "a" >>, << "[", "^", "a", "]", "*" >>,
      << "\\", "a" >>, << "\\", "w", "b" >>, << "^", "a", "*", "$" >>,
      << "(", "a", "*", ")", "\\", "1" >>, << "(", "a", ")", "(", "b", ")", "\\", "2" >>,
      << "(", "(", "a", ")", "b", ")", "\\", "2" >>,
      << "(", "a", "*", ")", "(", "a", "*", ")", "b" >>,
      << "a", "{", "2", "}" >>, << "a", "{", "1", ",", "}" >>,
      << "a", "{", "0", ",", "1", "}", "b" >>, << ".", "{", "1", ",", "2", "}", "a" >>,
      << "{", "-", "1", "}", ".", "*" >>, << "{", "-", "2", "}", "a", "*" >>,
      << "a", "{", "-", "1", "}", "a", "+" >> }

StepPatterns == SeqsUpTo(StepLetters, MaxStepPat) \cup StepSamples

InitSteps == Fresh(SeqsUpTo({"a", "b"}, MaxStepText), StepPatterns, "new")

\* the program keeps running: a step that can be taken is taken
SpecSteps == InitSteps /\ [][r_StepNext]_vars /\ WF_vars(r_StepNext)

\* the step-by-step run ends as the recursive definition of Match says
StepsAgree ==
    pc = "done" =>
        /\ panicked = r_MatchCall(line, pattern).panic
        /\ result = r_MatchCall(line, pattern).ok
        /\ ~panicked => captures = r_MatchCall(line, pattern).caps

\* of two active calls of the same method, the inner one works on a shorter
\* pattern or on the same pattern from a larger pattern index
StackDescends ==
    \A j \in 1..Len(rstack) : \A k \in (j + 1)..Len(rstack) :
        rstack[j].fn = rstack[k].fn =>
            \/ Len(rstack[k].pat) < Len(rstack[j].pat)
            \/ /\ rstack[k].pat = rstack[j].pat
               /\ rstack[k].patIdx > rstack[j].patIdx

\* C13: every call of Match of src/scrap/r.txt finishes after finitely many
\* steps, and on the way every nested call of a method works on a strictly
\* shorter pattern or from a strictly larger pattern index than the active
\* call of the same method around it.
C13_MatchTerminates == []StackDescends /\ <>(pc = "done")

\* Match has returned true on a pattern with two groups and two stars, having
\* recorded both captures
C13_Witness ==
    /\ pc = "done"
    /\ ~panicked
    /\ result
    /\ pattern = << "(", "a", "*", ")", "(", "a", "*", ")", "b" >>
    /\ Len(line) = MaxStepText
    /\ Len(captures) = 2

(***************************************************************************)
(* rm.captures across a failed call of handleCapturingGroup                *)
(* (src/scrap/r.txt).                                                      *)
(***************************************************************************)

\* the innermost call is one of handleCapturingGroup and this step returns false
GroupFails ==
    /\ pc = "run"
    /\ rstack # << >>
    /\ r_Top.fn = "handleCapturingGroup"
    /\ Len(rstack') < Len(rstack)
    /\ ret' = "false"

\* C21: whenever a call of handleCapturingGroup returns false, rm.captures is
\* exactly the list it was when the call was entered.
C21_FailedGroupRestoresCaptures ==
    [][GroupFails => captures' = r_Top.entered]_vars

(***************************************************************************)
(* The indices of the calls of matchRegex (src/unnamed/part_000).  Every   *)
(* call that does not hit rm.memo stores an entry under its key before it  *)
(* reads pattern[patIdx], so the keys of rm.memo are the (textIdx, patIdx) *)
(* matchRegex was called with.                                             *)
(***************************************************************************)

\* the keys of the calls with both indices in range and no captures
KeysInRange(text, pat) ==
    {p0_key(t, p, << >>) : t \in 0..Len(text), p \in 0..Len(pat)}

\* C22: on a pattern validatePattern accepts, every call of matchRegex has
\* 0 <= textIdx <= len(text) and 0 <= patIdx <= len(pattern), and no read of
\* pattern[patIdx] is out of range.
C22_IndicesInRange ==
    (pc = "done" /\ p0_validatePattern(pattern)) =>
        /\ ~panicked
        /\ DOMAIN memo \subseteq KeysInRange(line, pattern)

(***************************************************************************)
(* Patterns with structural elements that cannot proceed                   *)
(* (src/scrap/r.txt).                                                      *)
(***************************************************************************)

MaxEdgePat == 3

MaxEdgeText == 2

EdgeLetters == {"a", "1", "{", "}", "(", "[", "\\"}

InitEdge == Fresh(SeqsUpTo({"a", "1"}, MaxEdgeText), SeqsUpTo(EdgeLetters, MaxEdgePat), "new")

SpecEdge == InitEdge /\ [][r_Next]_vars

\* C23: Match returns a boolean for every text and every pattern: no call
\* ends in an out-of-range index into the pattern or the text.
C23_NeverOutOfRange == pc = "done" => ~panicked

(***************************************************************************)
(* Character classes in the engine of src/unnamed/part_000.                *)
(***************************************************************************)

InitBracket == Fresh(ClassTexts, ClassPatterns, "call")

SpecBracket == InitBracket /\ [][p0_Next]_vars

\* C24: the class [M] ends at the first ] behind its [ and is malformed only
\* when no ] follows, so that [M] matches every one-character text whose
\* character is a member of M.
C24_ClassMatchesMember ==
    pc = "done" =>
        \A M \in SeqsUpTo(ClassChars, MaxClassMembers) :
            (/\ pattern = ClassPattern(M, FALSE)
             /\ Len(line) = 1
             /\ \E i \in 1..Len(M) : M[i] = line[1]) => result

(***************************************************************************)
(* The spans of nested groups (src/scrap/r.txt).                           *)
(***************************************************************************)

MaxNestPrefix == 2

MaxNestWord == 2

MaxNestText == 4

\* P((W)): a literal prefix, then a group whose body is a group around the
\* literal word W
NestedAt(P, W) == P \o << "(", "(" >> \o W \o << ")", ")" >>

NestedAtPatterns ==
    {NestedAt(P, W) : P \in SeqsUpTo({"a", "b"}, MaxNestPrefix),
                      W \in SeqsUpTo({"a", "b"}, MaxNestWord)}

InitNested == Fresh(SeqsUpTo({"a", "b"}, MaxNestText), NestedAtPatterns, "new")

SpecNested == InitNested /\ [][r_Next]_vars

\* C25: every span [s, e) in rm.captures lies within the text passed to Match
\* and text[s:e] is the substring its group matched; in P((W)) both groups
\* match the word W.
C25_SpansReferToOriginalText ==
    (pc = "done" /\ ~panicked /\ result) =>
        \A W \in SeqsUpTo({"a", "b"}, MaxNestWord) :
            (\E P \in SeqsUpTo({"a", "b"}, MaxNestPrefix) : pattern = NestedAt(P, W)) =>
                \A n \in 1..Len(captures) :
                    /\ 0 <= captures[n][1]
                    /\ captures[n][1] <= captures[n][2]
                    /\ captures[n][2] <= Len(line)
                    /\ Slice(line, captures[n][1], captures[n][2]) = W

(***************************************************************************)
(* Two goroutines call Match on one *RegexMatcher of src/scrap/r.txt.      *)
(* line, pattern, pc, rstack, ret, result and panicked belong to the       *)
(* goroutine that is running; parked keeps them for the other one.         *)
(* rm.captures is a field of the matcher and one for both.  The scheduler  *)
(* switches between steps, at most MaxSwitches times.                      *)
(***************************************************************************)

MaxSwitches == 2

MaxConcText == 2

\* the goroutine's own state: arguments, stack and result of its call of Match
r_Context(text, pat, at, stack, returned, ok, panic) ==
    [line |-> text, pattern |-> pat, pc |-> at, rstack |-> stack, ret |-> returned,
     result |-> ok, panicked |-> panic]

\* the scheduler suspends the running goroutine and resumes the other one.
\* An unrecovered panic has ended the program, and a goroutine that has
\* returned is not resumed.
r_Switch ==
    /\ pc # "new"
    /\ ~panicked
    /\ parked.pc # "done"
    /\ switches < MaxSwitches
    /\ switches' = switches + 1
    /\ parked' = r_Context(line, pattern, pc, rstack, ret, result, panicked)
    /\ line' = parked.line
    /\ pattern' = parked.pattern
    /\ pc' = parked.pc
    /\ rstack' = parked.rstack
    /\ ret' = parked.ret
    /\ result' = parked.result
    /\ panicked' = parked.panicked
    /\ UNCHANGED <<rmPattern, newErr, captures, memo, stdout, p0_ghost, main_vars, pkg_vars>>

r_ConcNext == r_StepNext \/ r_Switch

\* the calls of the second goroutine
ParkedCalls ==
    {r_Context(t, p, "call", << >>, "none", FALSE, FALSE) :
        t \in { << >>, << "b" >> }, p \in { << >>, << "(", "b", ")" >> }}

InitConcurrent ==
    /\ line \in SeqsUpTo({"a", "b"}, MaxConcText)
    /\ pattern \in StepSamples
    /\ pc = "new"
    /\ parked \in ParkedCalls
    /\ switches = 0
    /\ pkg_Fresh
    /\ rmPattern = << >>
    /\ newErr = FALSE
    /\ result = FALSE
    /\ panicked = FALSE
    /\ captures = << >>
    /\ memo = EmptyMemo
    /\ stdout = << >>
    /\ tried = << >>
    /\ reads = << >>
    /\ rstack = << >>
    /\ ret = "none"
    /\ args = << >>
    /\ stdin = << >>
    /\ scanned = 0
    /\ exitCode = -1

SpecConcurrent == InitConcurrent /\ [][r_ConcNext]_vars

\* the call Match(text, pat) ended as it ends when it runs alone
AsAlone(text, pat, ok, panic) ==
    ~r_MatchCall(text, pat).panic => (~panic /\ ok = r_MatchCall(text, pat).ok)

\* C26: under every interleaving of two calls of Match on the same matcher,
\* each call returns the result it returns when it runs alone.
C26_ConcurrentCallsDoNotInterfere ==
    /\ pc = "done" => AsAlone(line, pattern, result, panicked)
    /\ parked.pc = "done" =>
           AsAlone(parked.line, parked.pattern, parked.result, parked.panicked)

(***************************************************************************)
(* Ordinary patterns in src/internal/matcher/regex.go against the          *)
(* LiteralMatcher of src/internal/matcher/literal.go.                      *)
(***************************************************************************)

MaxPlainPat == 2

MaxPlainText == 3

\* LiteralMatcher.Match: bytes.Contains(line, []byte(pattern))
lm_Match(text, pat) == Contains(text, pat)

PlainPatterns == SeqsUpTo({"a", "b", "*"}, MaxPlainPat) \ { << >> }

InitPlain == Fresh(SeqsUpTo({"a", "b"}, MaxPlainText), PlainPatterns, "call")

SpecPlain == InitPlain /\ [][rx_Next]_vars

\* C27: on a non-empty pattern of ordinary characters RegexMatcher.Match
\* returns what LiteralMatcher.Match returns: true exactly when the pattern
\* occurs in the line as a contiguous substring.
C27_PlainPatternIsSubstringSearch ==
    pc = "done" => (result <=> lm_Match(line, pattern))

(***************************************************************************)
(* The Engine of src/unnamed/part_006.  A task is modelled by what its     *)
(* Execute returns: "ok" for nil, "fail" for an error.  Every section      *)
(* between e.mu.Lock() and e.mu.Unlock() is one step; the steps of a call  *)
(* of Start interleave with the steps of the other goroutines.  AddTask    *)
(* is called while no Start is in progress.                                *)
(***************************************************************************)

MaxTasks == 2

TaskKinds == {"ok", "fail"}

\* goroutine g is between the first Unlock of Start and its return
e_InStart(g) == e_calls[g].pc # "idle"

\* goroutine g is in the loop over the tasks
e_Iterating(g) == e_calls[g].pc \in {"loop", "exec"}

\* Start of g returns r
e_Return(g, r) == e_calls' = [e_calls EXCEPT ![g].pc = "idle", ![g].ret = r]

e_Others == UNCHANGED <<grep_vars, vm, vm_seen>>

\* AddTask: append under the lock
e_AddTask ==
    /\ \A g \in Callers : ~e_InStart(g)
    /\ Len(engine.tasks) < MaxTasks
    /\ \E task \in TaskKinds :
          engine' = [engine EXCEPT !.tasks = Append(engine.tasks, task)]
    /\ UNCHANGED <<e_calls, e_seen>>
    /\ e_Others

\* Start, lines 37-45: the check of the running flag under the lock, then
\* the range expression e.tasks is evaluated once
e_StartLock(g) ==
    /\ e_calls[g].pc = "idle"
    /\ IF engine.running
       THEN /\ e_Return(g, "engine is already running")
            /\ UNCHANGED engine
       ELSE /\ engine' = [engine EXCEPT !.running = TRUE]
            /\ \E c \in {"live", "canceled"} :
                  e_calls' = [e_calls EXCEPT ![g] =
                      [pc |-> "loop", iter |-> engine.tasks, idx |-> 1, ctx |-> c, ret |-> "none"]]
    /\ UNCHANGED e_seen
    /\ e_Others

\* Start, lines 45-49: the next iteration and its select
e_StartSelect(g) ==
    /\ e_calls[g].pc = "loop"
    /\ IF e_calls[g].idx > Len(e_calls[g].iter)
       THEN e_calls' = [e_calls EXCEPT ![g].pc = "final"]
       ELSE IF e_calls[g].ctx = "canceled"
       THEN e_Return(g, "context canceled")
       ELSE e_calls' = [e_calls EXCEPT ![g].pc = "exec"]
    /\ UNCHANGED <<engine, e_seen>>
    /\ e_Others

\* Start, lines 50-52: task.Execute returns
e_TaskReturns(g) ==
    /\ e_calls[g].pc = "exec"
    /\ IF e_calls[g].iter[e_calls[g].idx] = "fail"
       THEN e_Return(g, "task execution failed")
       ELSE e_calls' = [e_calls EXCEPT ![g].pc = "loop", ![g].idx = @ + 1]
    /\ UNCHANGED <<engine, e_seen>>
    /\ e_Others

\* Start, lines 56-60: the flag is cleared under the lock and nil returned
e_StartFinish(g) ==
    /\ e_calls[g].pc = "final"
    /\ engine' = [engine EXCEPT !.running = FALSE]
    /\ e_Return(g, "nil")
    /\ UNCHANGED e_seen
    /\ e_Others

\* the context handed to g's Start is cancelled
e_Cancel(g) ==
    /\ e_InStart(g)
    /\ e_calls[g].ctx = "live"
    /\ e_calls' = [e_calls EXCEPT ![g].ctx = "canceled"]
    /\ UNCHANGED <<engine, e_seen>>
    /\ e_Others

\* Stop, called from any goroutine that is not inside Start
e_Stop ==
    /\ engine' = [engine EXCEPT !.running = FALSE]
    /\ UNCHANGED <<e_calls, e_seen>>
    /\ e_Others

\* IsRunning, called from any goroutine that is not inside Start
e_IsRunning ==
    /\ e_seen' = IF engine.running THEN "true" ELSE "false"
    /\ UNCHANGED <<engine, e_calls>>
    /\ e_Others

e_Next ==
    \/ e_AddTask
    \/ \E g \in Callers : e_StartLock(g)
    \/ \E g \in Callers : e_StartSelect(g)
    \/ \E g \in Callers : e_TaskReturns(g)
    \/ \E g \in Callers : e_StartFinish(g)
    \/ \E g \in Callers : e_Cancel(g)
    \/ e_Stop
    \/ e_IsRunning

InitEngine == Fresh({<< >>}, {<< >>}, "done")

SpecEngine == InitEngine /\ [][e_Next]_vars

\* the results with which Start returns after it has set the running flag
StartResults == {"nil", "task execution failed", "context canceled"}

\* C28: when a call of Start has returned nil, a task's error or the error of
\* the cancelled context and no Start is in progress, e.running is false:
\* IsRunning reports false and the next Start is not rejected.
C28_ReturnedStartClearsRunning ==
    (/\ \A g \in Callers : ~e_InStart(g)
     /\ \E g \in Callers : e_calls[g].ret \in StartResults)
        => ~engine.running

\* C29: at no time are two calls of Start in the loop over the tasks, under
\* every interleaving of Start, Stop and IsRunning.
C29_OneStartAtATime ==
    Cardinality({g \in Callers : e_Iterating(g)}) <= 1

(***************************************************************************)
(* The VM of src/pkg/vm.go.  Every method holds vm.mutex from entry to     *)
(* return, so a call is one step.  vm_seen records, for the last Run, the  *)
(* pc and the stack it started from and whether it was the first Run       *)
(* after a successful LoadProgram.                                         *)
(***************************************************************************)

MaxVmMemory == 2

\* the opcodes 0x00 .. 0x05 and a byte that is no opcode
VmBytes == 0..6

\* the outcome of the loop of Run on the VM v
RECURSIVE vm_loop(_)
vm_loop(v) ==
    IF v.pc >= Len(v.memory) THEN [vm |-> v, err |-> "nil"]
    ELSE LET opcode == At(v.memory, v.pc)
             w == [v EXCEPT !.pc = v.pc + 1]
             n == Len(w.stack)
         IN  CASE opcode = 0 -> vm_loop(w)
               [] opcode = 1 ->
                    IF w.pc >= Len(w.memory)
                    THEN [vm |-> w, err |-> "unexpected end of memory"]
                    ELSE vm_loop([w EXCEPT !.pc = w.pc + 1,
                                           !.stack = Append(w.stack, At(w.memory, w.pc))])
               [] opcode = 2 ->
                    IF n = 0
                    THEN [vm |-> w, err |-> "stack underflow"]
                    ELSE vm_loop([w EXCEPT !.stack = SubSeq(w.stack, 1, n - 1)])
               [] opcode = 3 ->
                    IF n < 2
                    THEN [vm |-> w, err |-> "not enough operands for ADD"]
                    ELSE vm_loop([w EXCEPT !.stack =
                             Append(SubSeq(w.stack, 1, n - 2), w.stack[n - 1] + w.stack[n])])
               [] opcode = 4 ->
                    IF n < 2
                    THEN [vm |-> w, err |-> "not enough operands for SUB"]
                    ELSE vm_loop([w EXCEPT !.stack =
                             Append(SubSeq(w.stack, 1, n - 2), w.stack[n - 1] - w.stack[n])])
               [] opcode = 5 -> [vm |-> w, err |-> "nil"]
               [] OTHER -> [vm |-> w, err |-> "unknown opcode"]

\* Run: the running flag is set for the duration of the loop
vm_RunCall(v) ==
    IF v.running THEN [vm |-> v, err |-> "VM is already running"]
    ELSE LET r == vm_loop([v EXCEPT !.running = TRUE])
         IN  [vm |-> [r.vm EXCEPT !.running = FALSE], err |-> r.err]

\* copy(vm.memory, program) for a program that fits
vm_copy(memory, program) ==
    [n \in 1..Len(memory) |-> IF n <= Len(program) THEN program[n] ELSE memory[n]]

vm_Others == UNCHANGED <<grep_vars, engine, e_calls, e_seen>>

vm_Run ==
    /\ \E r \in {vm_RunCall(vm)} :
          /\ vm' = r.vm
          /\ vm_seen' = [vm_seen EXCEPT !.err = r.err, !.loaded = FALSE,
                                        !.afterLoad = vm_seen.loaded,
                                        !.pc0 = vm.pc, !.stack0 = vm.stack]
    /\ vm_Others

vm_LoadProgram(program) ==
    /\ IF Len(program) > Len(vm.memory)
       THEN /\ vm_seen' = [vm_seen EXCEPT !.err = "program size exceeds memory size"]
            /\ UNCHANGED vm
       ELSE /\ vm' = [vm EXCEPT !.memory = vm_copy(vm.memory, program)]
            /\ vm_seen' = [vm_seen EXCEPT !.err = "nil", !.loaded = TRUE,
                                          !.program = program]
    /\ vm_Others

vm_GetStackTop ==
    /\ IF Len(vm.stack) = 0
       THEN vm_seen' = [vm_seen EXCEPT !.top = 0, !.topErr = "stack is empty"]
       ELSE vm_seen' = [vm_seen EXCEPT !.top = vm.stack[Len(vm.stack)], !.topErr = "nil"]
    /\ UNCHANGED vm
    /\ vm_Others

\* the programs handed to LoadProgram: all that fit and one that is too long
VmPrograms == SeqsUpTo(VmBytes, MaxVmMemory) \cup {[n \in 1..(MaxVmMemory + 1) |-> 0]}

vm_Next ==
    \/ vm_Run
    \/ \E program \in VmPrograms : vm_LoadProgram(program)
    \/ vm_GetStackTop

InitVM ==
    /\ GrepFresh({<< >>}, {<< >>}, "done")
    /\ engine = e_New
    /\ e_calls = [g \in Callers |-> e_NoCall]
    /\ e_seen = "none"
    /\ vm \in {NewVM(memorySize) : memorySize \in 0..MaxVmMemory}
    /\ vm_seen = vm_Unseen

SpecVM == InitVM /\ [][vm_Next]_vars

\* C30: the first Run after a successful LoadProgram(p) starts at memory
\* address 0 with an empty stack and finds p at the start of the memory,
\* whatever was called on the VM before.
C30_RunStartsLoadedProgramAfresh ==
    vm_seen.afterLoad =>
        /\ vm_seen.pc0 = 0
        /\ vm_seen.stack0 = << >>
        /\ HasPrefix(vm.memory, vm_seen.program)

====
